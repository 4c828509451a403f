--------------------------- MODULE ResponseStream ---------------------------
(***************************************************************************)
(* What the MCP HTTP/SSE transport promises about responses, without       *)
(* goroutines, channels or contexts.  Per session: a response is accepted  *)
(* at most once; while the client's stream lives, every accepted response  *)
(* is written to it, in the order of acceptance and none skipped; once the *)
(* stream is lost nothing more is written, and what is pending may be      *)
(* discarded.  The stream may be lost together with the response that was  *)
(* being written.                                                          *)
(***************************************************************************)
EXTENDS Sequences

CONSTANTS Sessions, Responses

VARIABLES
  phase,     (* phase[s]: the stream is "unopened", "live" or "dead"         *)
  accepted,  (* the responses accepted so far, by any session                *)
  pending,   (* pending[s]: accepted, not yet written                        *)
  written    (* written[s]: what the client has received                     *)

vars == <<phase, accepted, pending, written>>

Init ==
  /\ phase = [s \in Sessions |-> "unopened"]
  /\ accepted = {}
  /\ pending = [s \in Sessions |-> << >>]
  /\ written = [s \in Sessions |-> << >>]

Open(s) ==
  /\ phase[s] = "unopened"
  /\ phase' = [phase EXCEPT ![s] = "live"]
  /\ UNCHANGED <<accepted, pending, written>>

AcceptResponse(s, r) ==
  /\ phase[s] # "unopened"
  /\ r \notin accepted
  /\ accepted' = accepted \cup {r}
  /\ pending' = [pending EXCEPT ![s] = Append(@, r)]
  /\ UNCHANGED <<phase, written>>

Write(s) ==
  /\ phase[s] = "live"
  /\ pending[s] # << >>
  /\ written' = [written EXCEPT ![s] = Append(@, Head(pending[s]))]
  /\ pending' = [pending EXCEPT ![s] = Tail(@)]
  /\ UNCHANGED <<phase, accepted>>

Lose(s) ==
  /\ phase[s] = "live"
  /\ phase' = [phase EXCEPT ![s] = "dead"]
  /\ \/ UNCHANGED pending
     \/ /\ pending[s] # << >>
        /\ pending' = [pending EXCEPT ![s] = Tail(@)]
  /\ UNCHANGED <<accepted, written>>

Discard(s) ==
  /\ phase[s] = "dead"
  /\ pending[s] # << >>
  /\ pending' = [pending EXCEPT ![s] = Tail(@)]
  /\ UNCHANGED <<phase, accepted, written>>

Next ==
  \E s \in Sessions :
    \/ Open(s) \/ Write(s) \/ Lose(s) \/ Discard(s)
    \/ \E r \in Responses : AcceptResponse(s, r)

Spec == Init /\ [][Next]_vars

=============================================================================
