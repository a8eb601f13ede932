---------------------------- MODULE ExecutionForm ----------------------------
(***************************************************************************)
(* The form of the dashboard that submits a command and shows how it goes: *)
(* frontend/app/components/dashboard/command-execution-form.tsx, over the  *)
(* backend of Dispatch.                                                    *)
(*                                                                         *)
(* Every two seconds the form asks for the status of the entry it shows,   *)
(* without waiting for the answer before, and each answer replaces what is *)
(* shown.  A new command can be submitted meanwhile.  All calls go through *)
(* the queue of secureFetch, in which each waits for the one before; but a *)
(* failure of the transport replaces the queue while calls wait in the old *)
(* one, and with secure mode off there is none.                            *)
(***************************************************************************)
EXTENDS Dispatch, SequencesExt

CONSTANT MaxCalls \* bound on the calls that wait in secureFetch

ASSUME FormAssumption == MaxCalls \in Nat /\ None # "failed"

VARIABLES
  calls,   \* the calls under way, oldest first
  overlap, \* whether they may overtake each other
  shown,   \* executionStatus: entry and status
  polling, \* isPolling
  loading, \* isLoading
  watched, \* an entry, any
  told     \* the status in which it was shown last

form == <<calls, overlap, shown, polling, loading, watched, told>>
vars == <<server, request, slack, form>>

(* device: that of a submission, or None for any; entry: whose status is   *)
(* asked; answer: the status that came with it, failed, or None for none   *)
Call == [kind : {"submit", "status"}, device : Device \cup {None},
         entry : Entry \cup {None}, answer : Log!LogValue \cup {"failed", None}]
Settled(s) == s \in {"done", "error"}

Init ==
  /\ ServerInit
  /\ calls = <<>> /\ overlap \in BOOLEAN
  /\ shown = None /\ polling = FALSE /\ loading = FALSE
  /\ watched \in Entry /\ told = "absent"

-----------------------------------------------------------------------------
(* onSubmit, up to secureFetch                                             *)
Submit(d) ==
  /\ ~loading /\ Len(calls) < MaxCalls
  /\ shown' = None /\ loading' = TRUE
  /\ calls' = Append(calls, [kind |-> "submit", device |-> d, entry |-> None, answer |-> None])
  /\ UNCHANGED <<server, request, slack, overlap, polling, watched, told>>

(* setInterval: a cancelled entry is asked about again and again           *)
Poll ==
  /\ shown # None /\ polling /\ ~Settled(shown.status) /\ Len(calls) < MaxCalls
  /\ calls' = Append(calls,
       [kind |-> "status", device |-> None, entry |-> shown.entry, answer |-> None])
  /\ UNCHANGED <<server, request, slack, overlap, shown, polling, loading, watched, told>>

(* no call waits for another *)
AtOnceMutant(i) == TRUE

(* requestQueue of secureFetch *)
HasTurn(i) == i = 1 \/ overlap

Answer(i, s) == calls' = [calls EXCEPT ![i].answer = s]

(* an answer that is not ok, or none: then the session is cleared          *)
Failed(i) == Answer(i, "failed") /\ overlap' \in {overlap, TRUE}

(* GET /status/{queue_id} *)
GetStatus(i) ==
  /\ HasTurn(i) /\ calls[i].kind = "status" /\ calls[i].answer = None
  /\ \/ Answer(i, log[calls[i].entry]) /\ UNCHANGED overlap
     \/ Failed(i)
  /\ UNCHANGED <<server, request, slack, shown, polling, loading, watched, told>>

Send(i) ==
  /\ HasTurn(i) /\ calls[i].kind = "submit" /\ calls[i].answer = None
  /\ \/ BeginExecute(calls[i].device) /\ UNCHANGED <<calls, overlap>>
     \/ Serving("idle") /\ Failed(i) /\ UNCHANGED <<server, request, slack>>
  /\ UNCHANGED <<shown, polling, loading, watched, told>>

Show(e, s) ==
  /\ shown' = [entry |-> e, status |-> s]
  /\ told' = IF e = watched THEN s ELSE told

(* response.ok is not looked at *)
NotCheckedMutant == TRUE

ResponseOk == request.pc = "queued"

(* The backend's answer, or the fetch fails although there is one.         *)
SubmitAnswered(i) ==
  /\ calls[i].kind = "submit" /\ calls[i].answer = None
  /\ request.pc \in {"queued", "failed"}
  /\ request' = Idle
  /\ \/ /\ ResponseOk
        /\ calls' = RemoveAt(calls, i)
        /\ Show(request.entry, "queued")
        /\ polling' = TRUE /\ loading' = FALSE
        /\ UNCHANGED overlap
     \/ Failed(i) /\ UNCHANGED <<shown, polling, loading, told>>
  /\ UNCHANGED <<server, slack, watched>>

SubmitFailed(i) ==
  /\ calls[i].kind = "submit" /\ calls[i].answer = "failed"
  /\ calls' = RemoveAt(calls, i)
  /\ loading' = FALSE
  /\ UNCHANGED <<server, request, slack, overlap, shown, polling, watched, told>>

(* An answer about any entry replaces what is shown.                       *)
StatusAnswered(i) ==
  LET a == calls[i] IN
  /\ a.kind = "status" /\ a.answer # None
  /\ calls' = RemoveAt(calls, i)
  /\ IF a.answer = "failed"
     THEN UNCHANGED <<shown, polling, told>>
     ELSE Show(a.entry, a.answer) /\ polling' = (polling /\ ~Settled(a.answer))
  /\ UNCHANGED <<server, request, slack, overlap, loading, watched>>

Next ==
  \/ \E d \in Device \cup {None} : Submit(d)
  \/ Poll
  \/ \E i \in 1..Len(calls) :
       \/ GetStatus(i) \/ Send(i)
       \/ SubmitAnswered(i) \/ SubmitFailed(i) \/ StatusAnswered(i)
  \/ ServerNext /\ UNCHANGED form

Spec == Init /\ [][Next]_vars

-----------------------------------------------------------------------------
TypeOK ==
  /\ ServerTypeOK
  /\ calls \in Seq(Call) /\ Len(calls) <= MaxCalls
  /\ \A i \in 1..Len(calls) : calls[i].kind = "status" => calls[i].entry \in Queued
  /\ shown = None \/ shown \in [entry : Queued, status : Log!LogValue \ {"absent"}]
  /\ polling \in BOOLEAN /\ overlap \in BOOLEAN
  /\ loading <=> \E i \in 1..Len(calls) : calls[i].kind = "submit"
  /\ watched \in Entry /\ told \in Log!LogValue

Reachable(from, to) ==
  \/ from = to \/ from = "absent"
  \/ from = "queued" /\ to # "absent"
  \/ from = "running" /\ to \in {"done", "error"}

(* What the form shows of an entry never goes back to an earlier status,   *)
(* however many polls of how many entries are under way, as long as the    *)
(* queue of secureFetch is kept: each answer replaces what is shown        *)
(* (command-execution-form.tsx:145-153).                                   *)
ShownGrows == [][overlap \/ Reachable(told, told')]_vars
=============================================================================
