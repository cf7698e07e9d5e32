--------------------------- MODULE AlpineSelector ---------------------------
(***************************************************************************)
(* internal/mirror/alpine_selector.go: the health checks of the Alpine     *)
(* mirrors.  The selector is one for the process, and each of the handlers *)
(* that use it calls Start once, under a lock of its own: a later Start    *)
(* replaces the health records and the ticker that an earlier loop uses.   *)
(*                                                                         *)
(* up[m] says whether mirror m answers a check with 200 in time.  The      *)
(* ticker of a Start is named after its starter.                           *)
(***************************************************************************)
EXTENDS Naturals

CONSTANTS Mirrors,
          Starters,         \* the handlers that call Start
          NoTicker,
          MaxErrorCount     \* of the configuration, where 0 stands for 3

ASSUME AlpineAssumption == MaxErrorCount \in Nat \ {0} /\ NoTicker \notin Starters

VARIABLES
    up,            \* up[m]: mirror m is well
    mirrorHealth,  \* mirrorHealth[m]: IsHealthy and ErrorCount (to Cap) in the map
    records,       \* the Start that made the records of the map
    loop,          \* loop[s]: step of Start and then of the loop of s
    held,          \* held[s]: the Start that made the records, or the ticker, s uses
    asked,         \* asked[s]: the mirrors whose checks s waits for
    updateTicker,
    ticking,       \* tickers that have not been stopped
    stopping,      \* Stop has stopped the ticker and not yet sent
    quit           \* Stop took effect on the latest ticker

alpineVars == <<up, mirrorHealth, records, loop, held, asked, updateTicker, ticking, stopping, quit>>

Well == [healthy |-> TRUE, errors |-> 0]

AlpineInit ==
    /\ up = [m \in Mirrors |-> TRUE] /\ mirrorHealth = [m \in Mirrors |-> Well]
    /\ records = NoTicker /\ loop = [s \in Starters |-> "new"]
    /\ held = [s \in Starters |-> NoTicker] /\ asked = [s \in Starters |-> {}]
    /\ updateTicker = NoTicker /\ ticking = {}
    /\ stopping = FALSE /\ quit = FALSE

UpDown(m) ==
    /\ up' = [up EXCEPT ![m] = ~@]
    /\ UNCHANGED <<mirrorHealth, records, loop, held, asked, updateTicker, ticking, stopping, quit>>

----------------------------------------------------------------------------
(* Start, and the rounds of performHealthCheck *)

StartSelector(s) ==
    /\ loop[s] = "new" /\ loop' = [loop EXCEPT ![s] = "starting"]
    /\ mirrorHealth' = [m \in Mirrors |-> Well] /\ records' = s
    /\ UNCHANGED <<up, held, asked, updateTicker, ticking, stopping, quit>>

\* Mutant: mirrors that are not healthy are not checked.
BeginRoundOfHealthy(s) ==
    /\ loop[s] \in {"starting", "begin"}
    /\ loop' = [loop EXCEPT ![s] = IF @ = "starting" THEN "first" ELSE "round"]
    /\ held' = [held EXCEPT ![s] = records]
    /\ asked' = [asked EXCEPT ![s] = {m \in Mirrors : mirrorHealth[m].healthy}]
    /\ UNCHANGED <<up, mirrorHealth, records, updateTicker, ticking, stopping, quit>>

BeginRound(s) ==
    /\ loop[s] \in {"starting", "begin"}
    /\ loop' = [loop EXCEPT ![s] = IF @ = "starting" THEN "first" ELSE "round"]
    /\ held' = [held EXCEPT ![s] = records]
    /\ asked' = [asked EXCEPT ![s] = Mirrors]
    /\ UNCHANGED <<up, mirrorHealth, records, updateTicker, ticking, stopping, quit>>

\* No comparison tells ErrorCount from the greater of its two limits once it is there.
Cap == IF MaxErrorCount > 3 THEN MaxErrorCount ELSE 3

\* recordMirrorError compares with a 3 of its own, checkMirrorHealth with MaxErrorCount.
Failed(h, limit) ==
    LET n == IF h.errors < Cap THEN h.errors + 1 ELSE Cap IN
    [healthy |-> h.healthy /\ n < limit, errors |-> n]

Outcome(h, result) ==
    CASE result = "ok" -> Well
      [] result = "status" -> Failed(h, MaxErrorCount)
      [] result = "error" -> Failed(h, 3)

\* client.Do returns; a mirror that is not well gives an error or another status.  A check
\* that holds a replaced record leaves the map as it is.
checkMirrorHealth(s, m, result) ==
    /\ m \in asked[s] /\ (result = "ok" <=> up[m])
    /\ mirrorHealth' = IF held[s] = records THEN [mirrorHealth EXCEPT ![m] = Outcome(@, result)]
                                            ELSE mirrorHealth
    /\ asked' = [asked EXCEPT ![s] = @ \ {m}]
    /\ UNCHANGED <<up, records, loop, held, updateTicker, ticking, stopping, quit>>

\* wg.Wait returns; Start then makes the ticker and starts the loop, which waits on it.
FirstRoundEnds(s) ==
    /\ loop[s] = "first" /\ asked[s] = {}
    /\ loop' = [loop EXCEPT ![s] = "select"] /\ held' = [held EXCEPT ![s] = s]
    /\ updateTicker' = s /\ ticking' = ticking \union {s} /\ quit' = FALSE
    /\ UNCHANGED <<up, mirrorHealth, records, asked, stopping>>

----------------------------------------------------------------------------
(* The loop and Stop *)

\* The next select reads ams.updateTicker, which may be another ticker by now.
RoundEnds(s) ==
    /\ loop[s] = "round" /\ asked[s] = {}
    /\ loop' = [loop EXCEPT ![s] = "select"] /\ held' = [held EXCEPT ![s] = updateTicker]
    /\ UNCHANGED <<up, mirrorHealth, records, asked, updateTicker, ticking, stopping, quit>>

\* A ticker that runs ticks; Stop discards a tick not yet taken.
Tick(s) ==
    /\ loop[s] = "select" /\ held[s] \in ticking
    /\ loop' = [loop EXCEPT ![s] = "begin"] /\ held' = [held EXCEPT ![s] = NoTicker]
    /\ UNCHANGED <<up, mirrorHealth, records, asked, updateTicker, ticking, stopping, quit>>

\* Mutant: Stop leaves the ticker to the loop.
StopLeavesTicker ==
    /\ ~stopping /\ stopping' = TRUE /\ quit' = TRUE
    /\ UNCHANGED <<up, mirrorHealth, records, loop, held, asked, updateTicker, ticking>>

StopTicker ==
    /\ ~stopping /\ stopping' = TRUE /\ quit' = TRUE
    /\ ticking' = ticking \ {updateTicker}
    /\ UNCHANGED <<up, mirrorHealth, records, loop, held, asked, updateTicker>>

\* A loop in its select takes the value and stops the ticker that is there by now.
SendStop(s) ==
    /\ stopping /\ loop[s] = "select"
    /\ stopping' = FALSE /\ quit' = TRUE
    /\ loop' = [loop EXCEPT ![s] = "ended"] /\ ticking' = ticking \ {updateTicker}
    /\ UNCHANGED <<up, mirrorHealth, records, held, asked, updateTicker>>

\* With every loop elsewhere the value is not sent.
StopUnheard ==
    /\ stopping /\ \A s \in Starters : loop[s] # "select"
    /\ stopping' = FALSE
    /\ UNCHANGED <<up, mirrorHealth, records, loop, held, asked, updateTicker, ticking, quit>>

LoopStep(s) ==
    \/ BeginRound(s) \/ FirstRoundEnds(s) \/ RoundEnds(s) \/ Tick(s)
    \/ \E m \in Mirrors, result \in {"ok", "status", "error"} : checkMirrorHealth(s, m, result)

AlpineNext ==
    \/ \E m \in Mirrors : UpDown(m)
    \/ \E s \in Starters : StartSelector(s) \/ LoopStep(s) \/ SendStop(s)
    \/ StopTicker \/ StopUnheard

\* Go schedules every goroutine, HealthCheckTimeout ends every check, a ticker that runs ticks
\* and the loops that wait on one channel are served in turn.
AlpineFairness ==
    \A s \in Starters : WF_alpineVars(LoopStep(s))

AlpineSpec == AlpineInit /\ [][AlpineNext]_alpineVars /\ AlpineFairness

----------------------------------------------------------------------------
(* Properties *)

\* A mirror that stays well is selected again, whatever was recorded before, as long as a
\* selector runs: also when a second handler's Start replaces records that are being checked.
MirrorRecovers ==
    \A m \in Mirrors :
       <>[](up[m] /\ ~quit /\ updateTicker # NoTicker) => <>[]mirrorHealth[m].healthy

\* After Stop the checks cease, even where no loop hears it or two loops run.
ChecksCease ==
    <>[]quit => <>[](\A s \in Starters : loop[s] # "round")

=============================================================================
