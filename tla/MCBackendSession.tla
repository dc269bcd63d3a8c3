-------------------------- MODULE MCBackendSession --------------------------
EXTENDS BackendSession

\* The frames of the different questions asked of a session.
StreamFrames == {"audio", "text", "pause", "resume", "finish", "reconfigure"}
SpeechFinish == {"audio", "toggleTts", "finish"}
SpeechBlock == {"toggleTts", "text"}
EveryFrame == FrameKinds
=============================================================================
