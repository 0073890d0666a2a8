-------------------------- MODULE MCVoiceRequests --------------------------
(***************************************************************************)
(* VoiceRequests for TLC: calls with every kind of option, and lists of a  *)
(* length at, below and above each limit.                                  *)
(***************************************************************************)
EXTENDS VoiceRequests, TLC

Lengths == {0, 16, 17, 32, 33}
Empty   == {0}

Plain == [api : {"getApiVersionNumber", "getVoiceStatus", "getVoiceSessionTypes"}]
OnSession ==
  [api : {"voiceSessionTerminate", "voiceSessionAudioStreamStart"}, sessionId : {"id"}]
Configurations ==
  [api : {"configureVoice"}, urlPtt : {None, ""}, enable : {None, "false"}, mic : {None, "{}"}]
Inits    == [api : {"setVoiceInit"}, payload : {"", "json"}]
Messages == [api : {"sendVoiceMessage"}, msgType : {"type"}, trx : {None, "", "trx"},
             created : {None, "0", "1"}, msgPayload : {None, "", "json", "text"}]
Texts    == [api : {"voiceSessionByText"}, transcription : {"", "text"},
             type : {None, "ptt", "ff", "mic"}]
Sessions == [api : {"voiceSessionRequest"}, type : {"ptt_transcription", "mic_stream_single"},
             transcription : {None, "", "text"}, audio_file : {None, "file"}]

(* Every kind of call, and one of each api with every effect on the state.  *)
AllCalls == Plain \cup OnSession \cup Configurations \cup Inits \cup Messages \cup Texts \cup Sessions
StatusCalls == [api : {"getVoiceStatus"}] \cup [api : {"setVoiceInit"}, payload : {"json"}]

Interchangeable == Permutations(Caller)
=============================================================================
