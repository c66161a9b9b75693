------------------------------ MODULE RpcClient ------------------------------
(***************************************************************************)
(* A submission as packages/client/src/rpc.ts makes it: every step that    *)
(* MerchantQueue takes on the network is a request that may be throttled,  *)
(* lost before or after it was carried out, retried and given up.  The     *)
(* confirmers of @solana/kit are modelled from how sendPayment uses them.  *)
(***************************************************************************)
EXTENDS MerchantQueue

CONSTANTS
  Attempts,  \* RETRY_ATTEMPTS of withRetry
  Polls      \* polls that fit in CONFIRM_TIMEOUT_MS

ASSUME AttemptAssumption == Attempts \in Nat \ {0} /\ Polls \in Nat

VARIABLE request  \* caller -> what it awaits of the endpoint

\* sendPayment's way to an answer: kit sends and watches; then, over plain HTTP,
\* broadcastAndPoll sends again and polls.
Stages == {"none", "kit sends", "kit watches", "sends again", "polls"}

Requests ==
  [stage   : Stages,
   attempt : 1 .. Attempts, \* of the withRetry in progress
   polls   : 0 .. Polls,    \* polls made without a result
   taken   : BOOLEAN]       \* this attempt's send has been carried out

Quiet == [stage |-> "none", attempt |-> 1, polls |-> 0, taken |-> FALSE]

At(stage) == [Quiet EXCEPT !.stage = stage]

Awaits(c, r) == request' = [request EXCEPT ![c] = r]

Sent(c) == Head(call[c].todo).id

RpcInit == Init /\ request = [c \in Callers |-> Quiet]
------------------------------------------------------------------------------
(* sendPayment *)

SendPayment(c) ==
  /\ call[c].phase = "sending" /\ request[c] = Quiet
  /\ Awaits(c, At("kit sends"))
  /\ UNCHANGED vars

Sends(c) == request[c].stage \in {"kit sends", "sends again"}

\* The endpoint simulates the transaction and broadcasts it.
Taken(c) ==
  /\ Sends(c) /\ ~request[c].taken
  /\ Broadcasts(c)
  /\ Awaits(c, [request[c] EXCEPT !.taken = TRUE])

\* Its answer comes back.
Acknowledged(c) ==
  /\ Sends(c) /\ request[c].taken
  /\ Awaits(c, At(IF request[c].stage = "kit sends" THEN "kit watches"
                                                    ELSE "polls"))
  /\ UNCHANGED vars

\* The simulation objects.  No retry: this is something the chain decided.
Objected(c) ==
  /\ Sends(c) /\ ~request[c].taken
  /\ SendThrows(c, Objection(Sent(c)))
  /\ Awaits(c, Quiet)

\* Kit's confirmer ends by what it sees of the transaction and of its lifetime.
Watched(c) ==
  /\ request[c].stage = "kit watches"
  /\ SendConfirmed(c) \/ ConfirmerThrows(c)
  /\ Awaits(c, Quiet)

\* A poll that finds nothing, and a mutant that takes it for a confirmation.
PolledAtOnce(c) ==
  /\ request[c].stage = "polls"
  /\ Moves(c, [call[c] EXCEPT !.phase = "readback"])
  /\ OnlyTheCall
  /\ Awaits(c, Quiet)

\* One turn of broadcastAndPoll's loop, until the deadline.
Polled(c) ==
  LET r == request[c]
  IN  /\ r.stage = "polls"
      /\ CASE landed[Sent(c)] = "ok"     -> SendConfirmed(c) /\ Awaits(c, Quiet)
           [] landed[Sent(c)] = "failed" -> ConfirmerThrows(c) /\ Awaits(c, Quiet)
           [] r.polls < Polls ->
                /\ Awaits(c, [At("polls") EXCEPT !.polls = r.polls + 1])
                /\ UNCHANGED vars
           [] OTHER -> /\ SendThrows(c, "SUBMIT_RPC_UNAVAILABLE")
                       /\ Awaits(c, Quiet)
------------------------------------------------------------------------------
(* Transport failures *)

\* Mutant: the attempts are not counted.
TriesForEver(r) == [r EXCEPT !.taken = FALSE]

TriesAgain(r) == [r EXCEPT !.attempt = @ + 1, !.taken = FALSE]

\* An answer isRetryable knows (429, 5xx, a socket that hung up), or a failed
\* subscription: kit gives up, and the payment is broadcast again; withRetry
\* tries again, up to RETRY_ATTEMPTS.  What was lost may be the answer only.
Throttled(c) ==
  LET r == request[c]
  IN  /\ "rpcFailure" \in Faults
      /\ r.stage # "none"
      /\ CASE r.stage \in {"kit sends", "kit watches"} ->
                Awaits(c, At("sends again")) /\ UNCHANGED vars
           [] r.stage \in {"sends again", "polls"} /\ r.attempt < Attempts ->
                Awaits(c, TriesAgain(r)) /\ UNCHANGED vars
           [] OTHER -> /\ SendThrows(c, "SUBMIT_RPC_UNAVAILABLE")
                       /\ Awaits(c, Quiet)

\* An error isRetryable does not know, as a browser's own "Failed to fetch".
Unreachable(c) ==
  /\ "rpcFailure" \in Faults
  /\ request[c].stage # "none"
  /\ SendThrows(c, "SUBMIT_RPC_UNAVAILABLE")
  /\ Awaits(c, Quiet)

\* The reads after the send: answered, throttled and tried again, or given up.
Reads(c) ==
  \/ ReadAnswered(c) /\ Awaits(c, Quiet)
  \/ ReadFails(c) /\ Awaits(c, Quiet)
  \/ /\ "rpcFailure" \in Faults
     /\ AwaitsRead(c) /\ request[c].attempt < Attempts
     /\ Awaits(c, TriesAgain(request[c]))
     /\ UNCHANGED vars
------------------------------------------------------------------------------
Request(c) ==
  \/ SendPayment(c) \/ Taken(c) \/ Acknowledged(c) \/ Objected(c)
  \/ Watched(c) \/ Polled(c) \/ Throttled(c) \/ Unreachable(c) \/ Reads(c)

RpcNext ==
  \/ \E c \in Callers : Request(c) \/ (LocalStep(c) /\ UNCHANGED request)
  \/ (Merchant \/ Environment) /\ UNCHANGED request
  \/ Crash /\ request' = [c \in Callers |-> Quiet]

rpcVars == <<vars, request>>

RpcSpec == RpcInit /\ [][RpcNext]_rpcVars

\* As in MerchantQueue.  The endpoint answers or fails in the end; nobody is
\* trusted to confirm anything.  Reloads come to an end.
RpcFairness ==
  /\ \A c \in Callers : WF_rpcVars(Request(c) \/ (LocalStep(c) /\ UNCHANGED request))
  /\ \A p \in Auths : WF_rpcVars((ChainLands(p) \/ Dropped(p)) /\ UNCHANGED request)
  /\ WF_rpcVars((WriteLands \/ WriteFails) /\ UNCHANGED request)
  /\ WF_rpcVars(Tick /\ UNCHANGED request)
  /\ SF_rpcVars(Expire /\ UNCHANGED request)
  /\ <>[][~Crash]_rpcVars

RpcFairSpec == RpcSpec /\ RpcFairness
------------------------------------------------------------------------------
(* Properties *)

\* Over every lost answer, retry and second broadcast, a submission does what
\* MerchantQueue says in one step: sendPayment throws before or after a
\* broadcast, or confirms a transaction that has landed.
ImplementsQueue == Spec

\* The transaction was forgotten by the network and its lifetime has not ended:
\* kit's confirmer has no deadline of its own.
NothingToSee(c) ==
  /\ request[c].stage = "kit watches"
  /\ Sent(c) \notin flying /\ landed[Sent(c)] = "none"
  /\ account[Sent(c)] = "current"

\* sendPayment comes to an end, whatever the endpoint throttles or loses: the
\* attempts and the deadline bound it, or kit's confirmer waits for a lifetime
\* to end (CONFIRM_TIMEOUT_MS bounds broadcastAndPoll only).
SendEnds ==
  \A c \in Callers :
    request[c].stage # "none" ~> (request[c].stage = "none" \/ NothingToSee(c))
==============================================================================
