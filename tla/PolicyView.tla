----------------------------- MODULE PolicyView -----------------------------
(***************************************************************************)
(* What the policy provider promises the request pipeline, without caches, *)
(* locks, clocks or fetches: for every host the gateway holds a VIEW of    *)
(* the control plane's deployments.  The view only moves forward and never *)
(* past what was deployed, and a lookup atomically answers with the view   *)
(* at one instant between its call and its return.  Revision 0 is "no      *)
(* policy known for this host".                                            *)
(***************************************************************************)
EXTENDS Naturals

CONSTANTS Hosts,      \* normalized hostnames
          Requests,   \* request goroutines
          NoHost      \* "no lookup under way"

VARIABLES latest,     \* latest[h]: number of deployments made for h
          view,       \* view[h]: the deployment the gateway serves for h
          asking,     \* asking[r]: the host r is looking up, or NoHost
          answer      \* answer[r]: what r's last lookup returned

vars == <<latest, view, asking, answer>>

Init ==
  /\ latest = [h \in Hosts |-> 0]
  /\ view = [h \in Hosts |-> 0]
  /\ asking = [r \in Requests |-> NoHost]
  /\ answer = [r \in Requests |-> 0]

\* The control plane deploys another revision for h.
Deploy(h) ==
  /\ latest' = [latest EXCEPT ![h] = @ + 1]
  /\ UNCHANGED <<view, asking, answer>>

Ask(r, h) ==
  /\ asking[r] = NoHost
  /\ asking' = [asking EXCEPT ![r] = h]
  /\ answer' = [answer EXCEPT ![r] = 0]
  /\ UNCHANGED <<latest, view>>

\* The lookup takes effect: it may advance the view, and returns it.
Tell(r, h, rev) ==
  /\ asking[r] = h
  /\ rev \in view[h] .. latest[h]
  /\ view' = [view EXCEPT ![h] = rev]
  /\ asking' = [asking EXCEPT ![r] = NoHost]
  /\ answer' = [answer EXCEPT ![r] = rev]
  /\ UNCHANGED latest

TellSome(r) == \E h \in Hosts : \E rev \in view[h] .. latest[h] : Tell(r, h, rev)

Next ==
  \/ \E h \in Hosts : Deploy(h)
  \/ \E r \in Requests, h \in Hosts : Ask(r, h)
  \/ \E r \in Requests : TellSome(r)

Safety == Init /\ [][Next]_vars
=============================================================================
