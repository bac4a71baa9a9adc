---------------------------- MODULE HealthMonitor ----------------------------
(***************************************************************************)
(* workers/health_monitor.py: every Period a pass reads the heartbeat of   *)
(* each desk in turn, alerts for one that is older than Threshold and      *)
(* resets it, so that the alert is repeated only a Threshold later. The    *)
(* desks that beat are external; no code of the repository does.           *)
(***************************************************************************)
EXTENDS Integers, Sequences

CONSTANTS Desks,        \* the desks in the order of the list
          Threshold,    \* STALE_THRESHOLD, in ticks
          Period,       \* the sleep between two passes
          ResetTtl,     \* ex=300 of a reset
          MaxPass,      \* ticks that a pass takes at most
          MaxBeats,     \* bound: heartbeats
          MaxClock,     \* bound: ticks
          MaxFailures,  \* bound: passes that raise
          None

HealthMonitorAssumption ==
    /\ {Threshold, Period, MaxPass, MaxBeats, MaxClock, MaxFailures} \subseteq Nat
    /\ ResetTtl \in Nat \ {0}
    /\ None \notin Nat
    /\ Desks \in Seq(STRING)

VARIABLES clock,
          beat,      \* oniquant:heartbeat:{desk}: the time it holds, its expiry
          pass,      \* control point, now, position in the list
          wake,      \* when the monitor's sleep ends
          failed,    \* passes that raised
          alertedAt, \* ghost: now of the pass that alerted last for a desk
          seenAt,    \* ghost: when a desk beat last
          beats      \* ghost: heartbeats so far

vars == <<clock, beat, pass, wake, failed, alertedAt, seenAt, beats>>

DeskSet == {Desks[i] : i \in DOMAIN Desks}
Time == 0..MaxClock
Forever == MaxClock + 1

TypeOK ==
    /\ clock \in Time
    /\ beat \in [DeskSet -> [at : Time \cup {None}, expiry : 0..(MaxClock + ResetTtl)]]
    /\ pass \in [at : {"asleep", "reading", "alerting"}, now : Time, next : 1..(Len(Desks) + 1)]
    /\ wake \in Nat
    /\ failed \in 0..MaxFailures
    /\ alertedAt \in [DeskSet -> Time \cup {None}]
    /\ seenAt \in [DeskSet -> Time \cup {None}]
    /\ beats \in 0..MaxBeats

Init ==
    /\ clock = 0
    /\ beat = [d \in DeskSet |-> [at |-> None, expiry |-> 0]]
    /\ pass = [at |-> "asleep", now |-> 0, next |-> 1]
    /\ wake = 0
    /\ failed = 0
    /\ alertedAt = [d \in DeskSet |-> None]
    /\ seenAt = [d \in DeskSet |-> None]
    /\ beats = 0

Present(d) == beat[d].at /= None /\ beat[d].expiry > clock

----------------------------------------------------------------------------
(* A pass begins on time; only its own calls take time. *)
Tick ==
    /\ clock < MaxClock
    /\ IF pass.at = "asleep" THEN clock < wake ELSE clock < pass.now + MaxPass
    /\ clock' = clock + 1
    /\ UNCHANGED <<beat, pass, wake, failed, alertedAt, seenAt, beats>>

Beat(d) ==
    /\ beats < MaxBeats
    /\ beats' = beats + 1
    /\ beat' = [beat EXCEPT ![d] = [at |-> clock, expiry |-> Forever]]
    /\ seenAt' = [seenAt EXCEPT ![d] = clock]
    /\ UNCHANGED <<clock, pass, wake, failed, alertedAt>>

BeginPass ==
    /\ pass.at = "asleep"
    /\ clock >= wake
    /\ pass' = [at |-> "reading", now |-> clock, next |-> 1]
    /\ UNCHANGED <<clock, beat, wake, failed, alertedAt, seenAt, beats>>

Desk == Desks[pass.next]

(* elapsed > STALE_THRESHOLD, with the now of the pass. *)
Stale(d) == Present(d) /\ pass.now - beat[d].at > Threshold

Sleep ==
    /\ pass' = [pass EXCEPT !.at = "asleep"]
    /\ wake' = clock + Period

(* Mutated form: a desk without a heartbeat ends the pass. *)
SkipReturns ==
    /\ pass.at = "reading"
    /\ pass.next <= Len(Desks)
    /\ ~Stale(Desk)
    /\ pass' = [pass EXCEPT !.next = IF Present(Desk) THEN @ + 1 ELSE Len(Desks) + 1]
    /\ UNCHANGED <<clock, beat, wake, failed, alertedAt, seenAt, beats>>

Skip ==
    /\ pass.at = "reading"
    /\ pass.next <= Len(Desks)
    /\ ~Stale(Desk)
    /\ pass' = [pass EXCEPT !.next = @ + 1]
    /\ UNCHANGED <<clock, beat, wake, failed, alertedAt, seenAt, beats>>

(* send_alert, after the heartbeat was read. *)
Alert ==
    /\ pass.at = "reading"
    /\ pass.next <= Len(Desks)
    /\ Stale(Desk)
    /\ alertedAt' = [alertedAt EXCEPT ![Desk] = pass.now]
    /\ pass' = [pass EXCEPT !.at = "alerting"]
    /\ UNCHANGED <<clock, beat, wake, failed, seenAt, beats>>

(* Mutated form: the reset is backdated, for the next pass to repeat it. *)
ResetBackdated ==
    /\ pass.at = "alerting"
    /\ beat' = [beat EXCEPT ![Desk] =
                  [at |-> pass.now - Threshold, expiry |-> clock + ResetTtl]]
    /\ pass' = [pass EXCEPT !.at = "reading", !.next = @ + 1]
    /\ UNCHANGED <<clock, wake, failed, alertedAt, seenAt, beats>>

(* Mutated form: the reset lives no longer than the threshold. *)
ResetBriefly ==
    /\ pass.at = "alerting"
    /\ beat' = [beat EXCEPT ![Desk] = [at |-> pass.now, expiry |-> clock + Threshold]]
    /\ pass' = [pass EXCEPT !.at = "reading", !.next = @ + 1]
    /\ UNCHANGED <<clock, wake, failed, alertedAt, seenAt, beats>>

(* The reset writes the now of the pass over whatever the desk wrote in    *)
(* the meantime.                                                           *)
Reset ==
    /\ pass.at = "alerting"
    /\ beat' = [beat EXCEPT ![Desk] = [at |-> pass.now, expiry |-> clock + ResetTtl]]
    /\ pass' = [pass EXCEPT !.at = "reading", !.next = @ + 1]
    /\ UNCHANGED <<clock, wake, failed, alertedAt, seenAt, beats>>

EndPass ==
    /\ pass.at = "reading"
    /\ pass.next > Len(Desks)
    /\ Sleep
    /\ UNCHANGED <<clock, beat, failed, alertedAt, seenAt, beats>>

(* GET or SET raises: the desks behind are not looked at, and the alert of *)
(* this one may already be out.                                            *)
PassFails ==
    /\ pass.at /= "asleep"
    /\ failed < MaxFailures
    /\ failed' = failed + 1
    /\ Sleep
    /\ UNCHANGED <<clock, beat, alertedAt, seenAt, beats>>

Next ==
    \/ Tick
    \/ \E d \in DeskSet : Beat(d)
    \/ BeginPass \/ Skip \/ Alert \/ Reset \/ EndPass \/ PassFails

Spec == Init /\ [][Next]_vars

----------------------------------------------------------------------------
(* No flood: two alerts for a desk are more than a threshold apart, unless *)
(* a pass failed, whatever the desk does in the meantime.                  *)
AlertsApart ==
    \A d \in DeskSet :
        failed = 0 /\ alertedAt[d] /= None /\ pass.at = "reading" /\ pass'.at = "alerting"
            /\ Desk = d
        => alertedAt'[d] - alertedAt[d] > Threshold

(* An alert is earned: the desk was silent for a threshold before the pass *)
(* began. Only one that beat while it was being reported may be reported   *)
(* again up to a pass too early, as the reset overwrites that heartbeat.   *)
AlertIsEarned ==
    \A d \in DeskSet :
        pass.at = "alerting" /\ Desk = d /\ seenAt[d] < pass.now =>
            pass.now - seenAt[d] > Threshold - MaxPass

(* A desk that fell silent is reported, again and again, whatever the      *)
(* desks before it in the list do: while no pass fails, what Redis holds   *)
(* is never older than a threshold, a period and two passes.               *)
SilentDeskReported ==
    \A d \in DeskSet :
        failed = 0 /\ Present(d) =>
            clock - beat[d].at <= Threshold + Period + 2 * MaxPass

(* What a reset must outlast for the next pass but one to find it.         *)
ResetOutlasts == ResetTtl > Threshold + Period + 2 * MaxPass

(* ... and it is not forgotten, although a reset expires: as long as no    *)
(* pass takes so long that the reset expires before the desk's next turn.  *)
NeverForgotten ==
    ResetOutlasts =>
        \A d \in DeskSet : failed = 0 /\ seenAt[d] /= None => Present(d)

(* Alerts come in time, for those that earned them, and not too often.     *)
AlertsTimely ==
    [][AlertsApart /\ AlertIsEarned' /\ SilentDeskReported' /\ NeverForgotten']_vars
=============================================================================
