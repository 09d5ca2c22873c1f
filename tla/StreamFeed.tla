----------------------------- MODULE StreamFeed -----------------------------
(***************************************************************************)
(* What a stream of the pub/sub server promises to a subscriber, with none *)
(* of the machinery that keeps the promise: no cache, no cursor, no        *)
(* wake-up channel, no cancellation.                                       *)
(*                                                                         *)
(* Publishers take the stream over one after the other; each one numbers   *)
(* its packets 1, 2, 3, ...  A subscriber is handed packets one at a time. *)
(* After a packet of a publisher it gets                                   *)
(*   - the very next packet of that publisher, or                          *)
(*   - a later packet of it that is a key frame (it fell behind and skips  *)
(*     to a point where decoding can start), or                            *)
(*   - a packet of a publisher that took over later, again the very first  *)
(*     one or a key frame.                                                 *)
(* So nothing is repeated, nothing is reordered, a replaced publisher is   *)
(* never returned to, and what is skipped is skipped up to a key frame.    *)
(***************************************************************************)
EXTENDS Naturals

CONSTANTS Pubs,   \* publisher sessions
          Subs,   \* subscriber sessions
          Nil     \* no publisher

VARIABLES turn,   \* turn[p]: how many publishers attached up to p; 0 = not yet
          head,   \* head[p]: number of packets p has published
          keys,   \* keys[p]: the numbers of those that are key frames
          pos     \* pos[s]: the last packet handed to s

feedvars == <<turn, head, keys, pos>>

FeedInit ==
    /\ turn = [p \in Pubs |-> 0]
    /\ head = [p \in Pubs |-> 0]
    /\ keys = [p \in Pubs |-> {}]
    /\ pos = [s \in Subs |-> [src |-> Nil, idx |-> 0]]

\* p becomes the stream's publisher, after every publisher attached so far.
Attach(p) ==
    /\ turn[p] = 0
    /\ turn' = [turn EXCEPT ![p] = turn'[p]]
    /\ turn'[p] \in Nat
    /\ \A q \in Pubs : turn[q] < turn'[p]
    /\ UNCHANGED <<head, keys, pos>>

Publish(p, iskey) ==
    /\ turn[p] > 0
    /\ head' = [head EXCEPT ![p] = @ + 1]
    /\ keys' = [keys EXCEPT ![p] = IF iskey THEN @ \union {head[p] + 1} ELSE @]
    /\ UNCHANGED <<turn, pos>>

\* A subscriber that has seen nothing of p may start here.
EntryPoint(p, i) == i = 1 \/ i \in keys[p]

\* The packet i of p may follow the packet last handed to s.
Follows(s, p, i) ==
    \/ /\ pos[s].src = p
       /\ \/ i = pos[s].idx + 1
          \/ i > pos[s].idx /\ i \in keys[p]
    \/ /\ pos[s].src # p
       /\ pos[s].src = Nil \/ turn[pos[s].src] < turn[p]
       /\ EntryPoint(p, i)

Deliver(s) ==
    /\ \E p \in Pubs : \E i \in 1..head[p] :
          /\ Follows(s, p, i)
          /\ pos' = [pos EXCEPT ![s] = [src |-> p, idx |-> i]]
    /\ UNCHANGED <<turn, head, keys>>

FeedNext ==
    \/ \E p \in Pubs : Attach(p) \/ \E iskey \in BOOLEAN : Publish(p, iskey)
    \/ \E s \in Subs : Deliver(s)

FeedSpec == FeedInit /\ [][FeedNext]_feedvars
=============================================================================
