------------------------------- MODULE Signal -------------------------------
(***************************************************************************)
(* What an event promises its subscribers, without lists, handles or       *)
(* memory.  Subscriptions are numbered in the order in which they are      *)
(* made.  A delivery serves the active subscriptions of its event in that  *)
(* order, each at most once, and is complete when every subscription that  *)
(* was active at its start and has stayed so is served; one made meanwhile *)
(* may be served or not.  Only the one being served can end it earlier.  A *)
(* sweep ends the subscriptions of its signal one by one.                  *)
(***************************************************************************)
EXTENDS Naturals, Sequences

CONSTANTS
  Signals,
  MaxSubscriptions

VARIABLES
  active,      (* The active subscriptions of each signal.                 *)
  made,        (* How many subscriptions have been made.                   *)
  deliveries   (* The deliveries and sweeps under way, innermost first.    *)

Subscriptions == 1 .. MaxSubscriptions

Now    == deliveries[1]
Client == deliveries # <<>> => Now.busy

Init ==
  /\ active = [s \in Signals |-> {}]
  /\ made = 0
  /\ deliveries = <<>>

Subscribe(s) ==
  /\ Client
  /\ made < MaxSubscriptions
  /\ made' = made + 1
  /\ active' = [active EXCEPT ![s] = @ \cup {made + 1}]
  /\ UNCHANGED deliveries

(* Any number of subscriptions end at once; nothing ends while a delivery  *)
(* looks for the next subscription to serve.                               *)
End ==
  /\ Client
  /\ \A s \in Signals : active'[s] \subseteq active[s]
  /\ DOMAIN active' = Signals
  /\ UNCHANGED <<made, deliveries>>

Begin(s, sweep) ==
  /\ Client
  /\ deliveries' = <<[signal |-> s, sweep |-> sweep, owed |-> active[s], last |-> 0,
                      busy |-> FALSE]>> \o deliveries
  /\ UNCHANGED <<active, made>>

Start(s) == Begin(s, FALSE)
Sweep(s) == Begin(s, TRUE)

(* Nobody who is still owed the delivery is passed over. *)
Serve(n) ==
  /\ deliveries # <<>> /\ ~ Now.busy /\ ~ Now.sweep
  /\ n \in active[Now.signal] /\ n > Now.last
  /\ \A o \in Now.owed \cap active[Now.signal] : o >= n
  /\ deliveries' = [deliveries EXCEPT
       ![1].busy = TRUE, ![1].last = n, ![1].owed = @ \ {n}]
  /\ UNCHANGED <<active, made>>

SweepOne(n) ==
  /\ deliveries # <<>> /\ ~ Now.busy /\ Now.sweep
  /\ active' = [active EXCEPT ![Now.signal] = @ \ {n}]
  /\ UNCHANGED <<made, deliveries>>

Served ==
  /\ deliveries # <<>> /\ Now.busy
  /\ deliveries' = [deliveries EXCEPT ![1].busy = FALSE]
  /\ UNCHANGED <<active, made>>

Complete ==
  /\ deliveries # <<>> /\ ~ Now.busy
  /\ Now.owed \cap active[Now.signal] = {}
  /\ deliveries' = Tail(deliveries)
  /\ UNCHANGED <<active, made>>

(* Who is served may end the delivery. *)
Abort ==
  /\ deliveries # <<>> /\ Now.busy
  /\ deliveries' = Tail(deliveries)
  /\ UNCHANGED <<active, made>>

Next ==
  \/ \E s \in Signals : Subscribe(s) \/ Start(s) \/ Sweep(s)
  \/ \E n \in Subscriptions : Serve(n) \/ SweepOne(n)
  \/ End \/ Served \/ Complete \/ Abort

Spec == Init /\ [][Next]_<<active, made, deliveries>>
=============================================================================
