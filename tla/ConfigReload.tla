---------------------------- MODULE ConfigReload ----------------------------
(***************************************************************************)
(* internal/adapters/config/file_watcher.go and unified_loader.go: the     *)
(* fsnotify loop with its debounce timer, Reload, and the observers of the *)
(* current configuration.                                                  *)
(*                                                                         *)
(* The watch is on the file, not on its directory: a file that is replaced *)
(* by a rename, or removed and made again, is no longer watched.  An edit  *)
(* in place is two writes, and what is there between them may parse or     *)
(* not.  A file that is not there is loaded as the defaults.               *)
(***************************************************************************)
EXTENDS Naturals

CONSTANTS MaxEdits,    \* bound on the versions of the file, 1..MaxEdits after the first
          Invalid,     \* versions that do not parse or do not validate
          Reloads,     \* timer goroutines that may be in reloadConfig at a time
          Observers

ASSUME ReloadAssumption == MaxEdits \in Nat /\ Invalid \subseteq 1..MaxEdits

Half == MaxEdits + 1   \* what a half-written file holds, or the defaults: valid or not
Unread == MaxEdits + 2

VARIABLES
    disk, file,     \* the version being put into the file, and whether it is "whole", "half" or "gone"
    watcher,        \* "new", "running" or "stopped"
    watched,        \* fsnotify still watches the file
    event,          \* a Write event waits in watcher.Events
    timer,          \* debounceTimer is armed
    reload,         \* reload[r]: where the goroutine is, and what it has read
    current,        \* l.current
    subscribed, told,  \* l.observers, and the configuration each one was given last
    missed,         \* the last edit was not seen by any watch
    lost            \* the file was not loaded because reading it failed, and nothing happened to it since

reloadVars == <<disk, file, watcher, watched, event, timer, reload, current, subscribed, told, missed, lost>>
fileVars == <<disk, file, missed>>
loaderVars == <<reload, current, subscribed, told>>

Rested == [pc |-> "idle", read |-> Unread]

ReloadInit ==
    /\ disk = 0 /\ file = "whole"
    /\ watcher = "new" /\ watched = FALSE /\ event = FALSE /\ timer = FALSE
    /\ reload = [r \in Reloads |-> Rested]
    /\ current = 0 /\ subscribed = {} /\ told = [o \in Observers |-> Unread]
    /\ missed = FALSE /\ lost = FALSE

----------------------------------------------------------------------------
(* The file *)

Notify == event' = (event \/ watched)

BeginEdit ==
    /\ file = "whole" /\ disk < MaxEdits
    /\ disk' = disk + 1 /\ file' = "half" /\ missed' = ~watched /\ lost' = FALSE
    /\ Notify
    /\ UNCHANGED <<watcher, watched, timer, loaderVars>>

\* The rest is written; a file that was gone is made again, which no watch sees.
EndEdit ==
    /\ file # "whole" /\ file' = "whole" /\ missed' = ~watched /\ lost' = FALSE
    /\ Notify
    /\ UNCHANGED <<disk, watcher, watched, timer, loaderVars>>

\* The watched file is gone, and the watch with it; its Remove event is not one that watch
\* reacts to.  A new one has taken its place, or is still to come.
ReplaceFile ==
    /\ file = "whole" /\ disk < MaxEdits
    /\ disk' = disk + 1 /\ file' \in {"whole", "gone"} /\ missed' = TRUE /\ lost' = FALSE
    /\ watched' = FALSE
    /\ UNCHANGED <<watcher, event, timer, loaderVars>>

----------------------------------------------------------------------------
(* fileWatcher *)

\* stopChan is never made again: a watcher started a second time ends at once.  Start fails
\* without a file to watch.
StartWatcher ==
    /\ watcher = "new" /\ file # "gone"
    /\ watcher' = "running" /\ watched' = TRUE
    /\ UNCHANGED <<fileVars, lost, event, timer, loaderVars>>

\* The timer is not stopped.
StopWatcher ==
    /\ watcher = "running"
    /\ watcher' = "stopped" /\ watched' = FALSE /\ event' = FALSE
    /\ UNCHANGED <<fileVars, lost, timer, loaderVars>>

\* Mutant: an event stops an armed timer and only arms one if there was none.
DebounceOnce ==
    /\ watcher = "running" /\ event
    /\ event' = FALSE /\ timer' = ~timer
    /\ UNCHANGED <<fileVars, lost, watcher, watched, loaderVars>>

Debounce ==
    /\ watcher = "running" /\ event
    /\ event' = FALSE /\ timer' = TRUE
    /\ UNCHANGED <<fileVars, lost, watcher, watched, loaderVars>>

Fire(r) ==
    /\ timer /\ reload[r] = Rested
    /\ timer' = FALSE
    /\ reload' = [reload EXCEPT ![r].pc = "started"]
    /\ UNCHANGED <<fileVars, lost, watcher, watched, event, current, subscribed, told>>

----------------------------------------------------------------------------
(* Reload: Load reads the file, validates, assigns and notifies under l.mu *)

Locked == \E r \in Reloads : reload[r].pc = "loading"

Content == IF file = "whole" THEN disk ELSE Half

\* Mutant: the file is read before the lock is taken.
ReadUnlocked(r) ==
    /\ reload[r].pc = "started"
    /\ reload' = [reload EXCEPT ![r] = [pc |-> "loading", read |-> Content]] /\ lost' = FALSE
    /\ UNCHANGED <<fileVars, watcher, watched, event, timer, current, subscribed, told>>

ReadFile(r) ==
    /\ reload[r].pc = "started" /\ ~Locked
    /\ reload' = [reload EXCEPT ![r] = [pc |-> "loading", read |-> Content]] /\ lost' = FALSE
    /\ UNCHANGED <<fileVars, watcher, watched, event, timer, current, subscribed, told>>

\* os.ReadFile returns an error, which reloadConfig logs: nothing tries again.
ReadFails(r) ==
    /\ reload[r].pc = "started" /\ ~Locked /\ file # "gone"
    /\ reload' = [reload EXCEPT ![r] = Rested] /\ lost' = (current # disk)
    /\ UNCHANGED <<fileVars, watcher, watched, event, timer, current, subscribed, told>>

\* The content does not parse or does not validate: nothing changes.
Reject(r) ==
    /\ reload[r].pc = "loading" /\ reload[r].read \in Invalid \cup {Half}
    /\ reload' = [reload EXCEPT ![r] = Rested]
    /\ UNCHANGED <<fileVars, lost, watcher, watched, event, timer, current, subscribed, told>>

Accept(r) ==
    /\ reload[r].pc = "loading" /\ reload[r].read \notin Invalid
    /\ current' = reload[r].read
    /\ told' = [o \in Observers |-> IF o \in subscribed THEN current' ELSE told[o]]
    /\ reload' = [reload EXCEPT ![r] = Rested]
    /\ UNCHANGED <<fileVars, lost, watcher, watched, event, timer, subscribed>>

\* A new observer is taken to have read the configuration (GetCurrent) when it subscribed.
Subscribe(o) ==
    /\ ~Locked /\ o \notin subscribed
    /\ subscribed' = subscribed \cup {o} /\ told' = [told EXCEPT ![o] = current]
    /\ UNCHANGED <<fileVars, lost, watcher, watched, event, timer, reload, current>>

Unsubscribe(o) ==
    /\ ~Locked /\ o \in subscribed
    /\ subscribed' = subscribed \ {o} /\ told' = [told EXCEPT ![o] = Unread]
    /\ UNCHANGED <<fileVars, lost, watcher, watched, event, timer, reload, current>>

ReloadStep(r) == Fire(r) \/ ReadFile(r) \/ ReadFails(r) \/ Reject(r) \/ Accept(r)

ReloadNext ==
    \/ BeginEdit \/ EndEdit \/ ReplaceFile
    \/ StartWatcher \/ StopWatcher \/ Debounce
    \/ \E r \in Reloads : ReloadStep(r)
    \/ \E o \in Observers : Subscribe(o) \/ Unsubscribe(o)

\* The loop runs, timers fire, and Load, which waits for nothing but its lock, ends.
ReloadFairness ==
    /\ WF_reloadVars(Debounce)
    /\ WF_reloadVars(\E r \in Reloads : Fire(r))
    /\ \A r \in Reloads : /\ WF_reloadVars(Reject(r) \/ Accept(r))
                          /\ SF_reloadVars(ReadFile(r) \/ ReadFails(r))

ReloadSpec == ReloadInit /\ [][ReloadNext]_reloadVars /\ ReloadFairness

----------------------------------------------------------------------------
(* Properties *)

\* A valid file that a watch has seen change becomes the current configuration, however its
\* events, timers and reloads fall, unless it changes again, the watcher is stopped, or the
\* last reload could not read the file, which is not tried again.
ConfigConverges ==
    \A v \in 1..MaxEdits \ Invalid :
       (disk = v /\ file = "whole" /\ ~missed /\ watcher = "running")
          ~> (current = v \/ disk # v \/ watcher = "stopped" \/ lost)

\* The newest configuration is never overwritten by an older read: once no edit, event, timer
\* or reload is left, a watched, valid file that could be read is what is loaded and what every
\* observer was told.
QuietMeansCurrent ==
    (/\ file = "whole" /\ ~missed /\ ~lost /\ ~event /\ ~timer /\ watcher = "running"
     /\ disk \notin Invalid /\ \A r \in Reloads : reload[r] = Rested)
    => current = disk /\ \A o \in subscribed : told[o] = disk

=============================================================================
