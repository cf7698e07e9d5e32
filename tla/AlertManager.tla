---------------------------- MODULE AlertManager ----------------------------
(***************************************************************************)
(* internal/alerts/alert_manager.go: Send behind the rate limiter and the  *)
(* filter rules, the registered channels, and RateLimiter.Allow with its   *)
(* two time windows.  Time is a small clock; the three durations keep      *)
(* their order (ten seconds < a minute < an hour).                         *)
(***************************************************************************)
EXTENDS Integers, Sequences, FiniteSets

CONSTANTS Channels,               \* names of alerters
          Senders,                \* goroutines that call Send
          Burst, Minute, Hour,    \* durations of the windows
          BurstSize, MaxPerMinute, MaxPerHour,   \* limits, 0 is none
          MaxClock                \* bound on the clock

ASSUME AlertAssumption ==
    /\ {Burst, Minute, Hour, BurstSize, MaxPerMinute, MaxPerHour, MaxClock} \subseteq Nat
    /\ Burst < Minute /\ Minute < Hour

VARIABLES
    now,
    minuteWindow, hourWindow,  \* timestamps of each timeWindow, oldest first
    admitted,                  \* every time at which Allow said yes
    alerters,                  \* am.alerters
    sender                     \* sender[s]: its step and the channels it has still to call

alertVars == <<now, minuteWindow, hourWindow, admitted, alerters, sender>>

Calm == [pc |-> "idle", todo |-> {}]

AlertInit ==
    /\ now = 0 /\ minuteWindow = <<>> /\ hourWindow = <<>> /\ admitted = <<>>
    /\ alerters = {}
    /\ sender = [s \in Senders |-> Calm]

Advance ==
    /\ now < MaxClock /\ now' = now + 1
    /\ UNCHANGED <<minuteWindow, hourWindow, admitted, alerters, sender>>

----------------------------------------------------------------------------
(* RateLimiter *)

\* The number of leading timestamps before the cutoff: where the loop of cleanup stops.
Stale(w, cutoff) ==
    CHOOSE n \in 0..Len(w) :
       /\ \A j \in 1..n : w[j] < cutoff
       /\ n < Len(w) => w[n + 1] >= cutoff

\* Mutant: a timestamp at the cutoff itself is dropped as well.
cleanupAtCutoff(w, d) == SubSeq(w, Stale(w, now - d + 1) + 1, Len(w))

\* timeWindow.cleanup: drop what is before the cutoff.
Trim(w, d) == SubSeq(w, Stale(w, now - d) + 1, Len(w))

\* timeWindow.countRecent goes backwards from the newest timestamp.
countRecent(w) ==
    CHOOSE n \in 0..Len(w) :
       /\ \A j \in (Len(w) - n + 1)..Len(w) : w[j] >= now - Burst
       /\ n < Len(w) => w[Len(w) - n] < now - Burst

Under(n, limit) == limit > 0 => n < limit

\* Allow says yes.  A window whose limit is 0 is cleaned up by add instead of count.
Allow ==
    LET m == Trim(minuteWindow, Minute)
        h == Trim(hourWindow, Hour)
    IN  /\ Under(Len(m), MaxPerMinute) /\ Under(Len(h), MaxPerHour) /\ Under(countRecent(m), BurstSize)
        /\ minuteWindow' = Append(m, now) /\ hourWindow' = Append(h, now)
        /\ admitted' = Append(admitted, now)

\* Allow says no: the hour is looked at, and cleaned up, only when the minute has room.
Deny ==
    LET m == IF MaxPerMinute > 0 THEN Trim(minuteWindow, Minute) ELSE minuteWindow
        h == IF MaxPerHour > 0 /\ Under(Len(m), MaxPerMinute) THEN Trim(hourWindow, Hour) ELSE hourWindow
    IN  /\ \/ ~Under(Len(m), MaxPerMinute)
           \/ ~Under(Len(h), MaxPerHour)
           \/ ~Under(countRecent(m), BurstSize)
        /\ minuteWindow' = m /\ hourWindow' = h /\ UNCHANGED admitted

----------------------------------------------------------------------------
(* Send and SendToChannel *)

\* The limiter comes first, so an event that the filter denies has used up its share.
Admit(s) ==
    /\ sender[s] = Calm /\ Allow
    /\ sender' = [sender EXCEPT ![s].pc = "filter"]
    /\ UNCHANGED <<now, alerters>>

Limited(s) ==
    /\ sender[s] = Calm /\ Deny
    /\ UNCHANGED <<now, alerters, sender>>

\* FilterEngine.Evaluate: deny ends the call, redirect looks one channel up, else broadcast.
Denied(s) ==
    /\ sender[s].pc = "filter"
    /\ sender' = [sender EXCEPT ![s] = Calm]
    /\ UNCHANGED <<now, minuteWindow, hourWindow, admitted, alerters>>

\* Mutant: the channels are copied and the lock is released before they are called.
BroadcastUnlocked(s) ==
    /\ sender[s].pc = "filter"
    /\ sender' = [sender EXCEPT ![s] = [pc |-> "unlocked", todo |-> alerters]]
    /\ UNCHANGED <<now, minuteWindow, hourWindow, admitted, alerters>>

\* The read lock is taken and held while the channels are called one by one.
Broadcast(s) ==
    /\ sender[s].pc = "filter"
    /\ sender' = [sender EXCEPT ![s] = [pc |-> "broadcast", todo |-> alerters]]
    /\ UNCHANGED <<now, minuteWindow, hourWindow, admitted, alerters>>

\* SendToChannel keeps the alerter it found but not the lock; none found ends the call.  It may
\* also be called by itself, past limiter and filter.
Redirect(s, c) ==
    /\ sender[s].pc \in {"idle", "filter"}
    /\ sender' = [sender EXCEPT ![s] = IF c \in alerters THEN [pc |-> "redirect", todo |-> {c}] ELSE Calm]
    /\ UNCHANGED <<now, minuteWindow, hourWindow, admitted, alerters>>

\* The channel is disabled, or its Send returns, with or without an error: the next one follows.
Delivered(s, c) ==
    /\ c \in sender[s].todo
    /\ sender' = [sender EXCEPT ![s].todo = @ \ {c}]
    /\ UNCHANGED <<now, minuteWindow, hourWindow, admitted, alerters>>

Sent(s) ==
    /\ sender[s].pc \notin {"idle", "filter"} /\ sender[s].todo = {}
    /\ sender' = [sender EXCEPT ![s] = Calm]
    /\ UNCHANGED <<now, minuteWindow, hourWindow, admitted, alerters>>

Reading == \E s \in Senders : sender[s].pc = "broadcast"

RegisterAlerter(c) ==
    /\ ~Reading /\ alerters' = alerters \cup {c}
    /\ UNCHANGED <<now, minuteWindow, hourWindow, admitted, sender>>

UnregisterAlerter(c) ==
    /\ ~Reading /\ alerters' = alerters \ {c}
    /\ UNCHANGED <<now, minuteWindow, hourWindow, admitted, sender>>

AlertNext ==
    \/ Advance
    \/ \E s \in Senders :
          \/ Admit(s) \/ Limited(s) \/ Denied(s) \/ Broadcast(s) \/ Sent(s)
          \/ \E c \in Channels : Redirect(s, c) \/ Delivered(s, c)
    \/ \E c \in Channels : RegisterAlerter(c) \/ UnregisterAlerter(c)

AlertSpec == AlertInit /\ [][AlertNext]_alertVars

----------------------------------------------------------------------------
(* Properties *)

Within(from, d) == Cardinality({i \in 1..Len(admitted) : admitted[i] \in from..(from + d)})

\* Over any minute, any hour and any ten seconds of the whole run, both ends included, no more
\* events pass than the limits allow: nothing slips through where the windows are trimmed.
AlertLimitHeld ==
    \A from \in 0..now :
       /\ MaxPerMinute > 0 => Within(from, Minute) <= MaxPerMinute
       /\ MaxPerHour > 0 => Within(from, Hour) <= MaxPerHour
       /\ BurstSize > 0 => Within(from, Burst) <= BurstSize

\* Once UnregisterAlerter has returned, a broadcast never calls the channel; only a redirect
\* that had looked it up before may still do.
UnregisteredIsSilent ==
    \A s \in Senders : sender[s].todo \subseteq alerters \/ sender[s].pc = "redirect"

=============================================================================
