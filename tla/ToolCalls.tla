------------------------------- MODULE ToolCalls -------------------------------
(* What a client of the MCP server is promised for its tool calls: a call that  *)
(* the server has read is answered exactly once, unless the client cancelled    *)
(* that very call or ended the session; a call that was dropped is not answered *)
(* any more, and only a call whose result is not UTF-8 brings the server down.  *)
EXTENDS Naturals

CONSTANTS Call,
          Unprintable    \* the calls whose result is not UTF-8

VARIABLES
    call,       \* per call "new", "open", "closed"
    answers,    \* per call, the responses written
    asked,      \* the calls the client cancelled
    ended,      \* the client's input is over
    up          \* the server has not terminated abnormally

vars == <<call, answers, asked, ended, up>>

Init ==
    /\ call = [c \in Call |-> "new"]
    /\ answers = [c \in Call |-> 0]
    /\ asked = {}
    /\ ended = FALSE /\ up = TRUE

Accept(c) ==
    /\ up /\ ~ended /\ call[c] = "new"
    /\ call' = [call EXCEPT ![c] = "open"]
    /\ UNCHANGED <<answers, asked, ended, up>>

(* An error, or "server_busy": the call is not executed.                        *)
Refuse(c) ==
    /\ up /\ ~ended /\ call[c] = "new"
    /\ call' = [call EXCEPT ![c] = "closed"]
    /\ answers' = [answers EXCEPT ![c] = 1]
    /\ UNCHANGED <<asked, ended, up>>

Answer(c) ==
    /\ up /\ call[c] = "open" /\ c \notin Unprintable
    /\ call' = [call EXCEPT ![c] = "closed"]
    /\ answers' = [answers EXCEPT ![c] = 1]
    /\ UNCHANGED <<asked, ended, up>>

(* A cancellation drops the call or comes too late for it.                      *)
Cancel(c) ==
    /\ up /\ ~ended /\ call[c] # "new"
    /\ asked' = asked \cup {c}
    /\ call' \in {call, [call EXCEPT ![c] = "closed"]}
    /\ UNCHANGED <<answers, ended, up>>

Drop(c) ==
    /\ up /\ ended /\ call[c] = "open"
    /\ call' = [call EXCEPT ![c] = "closed"]
    /\ UNCHANGED <<answers, asked, ended, up>>

EndInput ==
    /\ up /\ ~ended /\ ended' = TRUE
    /\ UNCHANGED <<call, answers, asked, up>>

Terminate(c) ==
    /\ up /\ call[c] = "open" /\ c \in Unprintable
    /\ up' = FALSE
    /\ UNCHANGED <<call, answers, asked, ended>>

Settle(c) == Answer(c) \/ Drop(c) \/ Terminate(c)

Next ==
    \/ \E c \in Call : Accept(c) \/ Refuse(c) \/ Cancel(c) \/ Settle(c)
    \/ EndInput

Spec == Init /\ [][Next]_vars /\ \A c \in Call : WF_vars(Settle(c))
=============================================================================
