------------------------------ MODULE MCSpeech ------------------------------
EXTENDS SpeechHost
=============================================================================
