---------------------------- MODULE MCProjectUpdate ----------------------------
(* "api" in the generator's tree is new in the SDK, "cmake" is replaced, and "main" is *)
(* the user's file with a newer template.                                          *)
EXTENDS ProjectUpdate, TLC

MCInstalled == "api" :> "absent" @@ "cmake" :> "old" @@ "main" :> "old"
MCCandidate == "api" :> "new" @@ "cmake" :> "new" @@ "main" :> "new"
MCSorted == <<"cmake", "main", "api">>
MCFound == {<<TRUE, TRUE>>}
=============================================================================
