------------------------ MODULE MCMeetingRecording ------------------------
EXTENDS MeetingRecording

EveryCrash == {"process", "power"}
=============================================================================
