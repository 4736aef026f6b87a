------------------------------- MODULE Epoll --------------------------------
(***************************************************************************)
(* Event poll objects (epoll.rs, epoll_entry.rs, epoll_list.rs) and the    *)
(* system calls on them (sys_epoll.rs).                                    *)
(*                                                                         *)
(* One epoll object observes files, each with a wait queue of its own.     *)
(* Three locks meet: files, the map of the observed files, lists, the list *)
(* of the entries that may be ready, and the lock of each file's wait      *)
(* queue, which Notify holds for reading while it calls back.  A step      *)
(* is what happens between two operations on them.                         *)
(*                                                                         *)
(* A file lives while a descriptor or a running call has it.  The last to  *)
(* let go of it and of its wait queue drops the queue, and with it the     *)
(* wait entry, whose context takes the entry out of the epoll object.      *)
(***************************************************************************)
EXTENDS Naturals, Sequences, FiniteSets, WaitList

CONSTANTS
  File, NoFile,
  Waiter,       \* tasks that call WaitEpoll or poll the epoll object
  Controller,   \* tasks that call epoll_ctl
  Closer,       \* tasks that close files
  Nobody,       \* the holder of a free lock
  max,          \* the events a call may return
  Flags,        \* of {"level", "edge", "oneshot"}
  Calls         \* of each waiter, of {"wait", "try", "avail"}: WaitEpoll, with
                \* a timeout of 0, Readiness of the epoll object

ASSUME EpollAssumption ==
  /\ NoFile \notin File /\ max \in Nat \ {0}
  /\ Nobody \notin Waiter \cup Controller \cup Closer \cup File
  /\ File \cap (Waiter \cup Controller \cup Closer) = {}
  /\ Waiter \cap Controller = {} /\ Closer \cap (Waiter \cup Controller) = {}
  /\ Flags \subseteq {"level", "edge", "oneshot"}
  /\ Calls \in [Waiter -> SUBSET {"wait", "try", "avail"}]

VARIABLES
  open, ready,         \* of each file: has a descriptor, has an event
  owed,                \* an event came and no call has seen it yet
  known,               \* EventPollInternal.files
  registered,          \* files whose wait queue has the entry's waiter
  entry,               \* state and flags of each file's entry
  readyList,           \* PollEntryList
  files, lists,        \* who holds the two locks
  queue, event,        \* waiters in the epoll object's queue, their bits
  pc,                  \* of each task, and of the notifier of each file
  file,                \* the file it works on
  call, rest, got, ok  \* a waiter's call, the entries it has still to
                       \* visit, events it has, and the readiness it saw

vars == <<open, ready, owed, known, registered, entry, readyList, files,
          lists, queue, event, pc, file, call, rest, got, ok>>
fileVars == <<open, ready, owed>>
epollVars == <<known, registered, entry, readyList, files, lists, queue, event>>
scanVars == <<call, rest, got, ok>>

Task == Waiter \cup Controller \cup Closer
Actor == Task \cup File

Pc == {"Idle", "Notify", "CallBack", "Wake", "DropFiles", "DropLists",
       "Add", "Mod", "Del", "Register", "Readiness", "Done",
       "Unregister", "Update", "DelUnregister", "DelUnlist", "DelFiles",
       "DelLists", "Lock", "Scan", "Look", "Take", "Enter", "Block", "Leave"}

TypeOK ==
  /\ {open, ready, owed} \subseteq [File -> BOOLEAN]
  /\ known \subseteq File /\ registered \subseteq File
  /\ entry \in [File -> [state : {"Ready", "Waiting", "Disabled"},
                         flags : Flags \cup {"none"}]]
  /\ readyList \in Seq(File)
  /\ {files, lists} \subseteq Actor \cup {Nobody}
  /\ queue \subseteq Waiter /\ event \in [Waiter -> BOOLEAN]
  /\ pc \in [Actor -> Pc]
  /\ file \in [Actor -> File \cup {NoFile}]
  /\ call \in [Waiter -> {"wait", "try", "avail", "none"}]
  /\ rest \in [Waiter -> Seq(File)] /\ got \in [Waiter -> 0..max]
  /\ ok \in [Waiter -> BOOLEAN]

NewEntry(flags) == [state |-> "Waiting", flags |-> flags]

Init ==
  /\ open = [f \in File |-> TRUE] /\ ready = [f \in File |-> FALSE]
  /\ owed = [f \in File |-> FALSE]
  /\ known = {} /\ registered = {}
  /\ entry = [f \in File |-> NewEntry("none")]
  /\ readyList = <<>> /\ files = Nobody /\ lists = Nobody
  /\ queue = {} /\ event = [t \in Waiter |-> FALSE]
  /\ pc = [a \in Actor |-> "Idle"]
  /\ file = [a \in Actor |-> IF a \in File THEN a ELSE NoFile]
  /\ call = [t \in Waiter |-> "none"] /\ rest = [t \in Waiter |-> <<>>]
  /\ got = [t \in Waiter |-> 0] /\ ok = [t \in Waiter |-> FALSE]

At(a, l) == pc[a] = l

Goto(a, l) == pc' = [pc EXCEPT ![a] = l]

(* Who keeps a file alive, so that Upgrade finds it.  Its wait queue also  *)
(* lives as long as its notifier is at work.                               *)
Alive(f) ==
  open[f] \/ \E t \in Task : file[t] = f /\ pc[t] \notin {"DropFiles", "DropLists"}

Busy(f) == pc[f] # "Idle"

(* a lets go of f and goes on at l, unless it was the last: then the wait  *)
(* queue is dropped with the wait entry in it.                             *)
LetGo(a, f, l) ==
  LET last == /\ ~open[f]
              /\ \A t \in Task \ {a} : file[t] # f
              /\ a = f \/ ~Busy(f)
              /\ f \in registered
  IN /\ Goto(a, IF last THEN "DropFiles" ELSE l)
     /\ file' = [file EXCEPT ![a] = IF last \/ a = f THEN f ELSE NoFile]

-----------------------------------------------------------------------------
(* Files: an event comes, and Notify is called after it; somebody reads    *)
(* all there is; a descriptor is closed, and the file is opened anew.      *)

Arrive(f) ==
  /\ Alive(f) /\ ~Busy(f)
  /\ ready' = [ready EXCEPT ![f] = TRUE]
  /\ owed' = [owed EXCEPT ![f] = f \in registered]
  /\ Goto(f, "Notify")
  /\ UNCHANGED <<open, epollVars, file, scanVars>>

Drain(f) ==
  /\ ready[f]
  /\ ready' = [ready EXCEPT ![f] = FALSE]
  /\ owed' = [owed EXCEPT ![f] = FALSE]
  /\ UNCHANGED <<open, epollVars, pc, file, scanVars>>

Close(c, f) ==
  /\ At(c, "Idle") /\ c \in Closer /\ open[f]
  /\ open' = [open EXCEPT ![f] = FALSE]
  /\ IF /\ \A t \in Task : file[t] # f
        /\ ~Busy(f) /\ f \in registered
       THEN Goto(c, "DropFiles") /\ file' = [file EXCEPT ![c] = f]
       ELSE UNCHANGED <<pc, file>>
  /\ UNCHANGED <<ready, owed, epollVars, scanVars>>

Reopen(f) ==
  /\ ~open[f] /\ ~Busy(f) /\ \A t \in Task : file[t] # f
  /\ open' = [open EXCEPT ![f] = TRUE]
  /\ ready' = [ready EXCEPT ![f] = FALSE]
  /\ owed' = [owed EXCEPT ![f] = FALSE]
  /\ UNCHANGED <<epollVars, pc, file, scanVars>>

-----------------------------------------------------------------------------
(* Drop of WaitContext::EpollContext by whoever dropped the wait entry:    *)
(* first the map, then the list.  RemoveEntry drops it while it still has  *)
(* the file.                                                               *)

DropFiles(a) ==
  /\ pc[a] \in {"DropFiles", "DelFiles"}
  /\ files = Nobody
  /\ known' = known \ {file[a]}
  /\ Goto(a, IF At(a, "DropFiles") THEN "DropLists" ELSE "DelLists")
  /\ UNCHANGED <<fileVars, registered, entry, readyList, files, lists, queue,
                 event, file, scanVars>>

Unlist(f) ==
  readyList' = IF entry[f].state = "Ready" THEN RemoveEntry(readyList, f)
               ELSE readyList

DropLists(a) ==
  LET f == file[a]
  IN /\ pc[a] \in {"DropLists", "DelLists"}
     /\ lists = Nobody
     /\ Unlist(f)
     /\ entry' = [entry EXCEPT ![f] = NewEntry("none")]
     /\ registered' = registered \ {f}
     /\ Goto(a, "Idle")
     /\ file' = [file EXCEPT ![a] = IF a = f THEN f ELSE NoFile]
     /\ UNCHANGED <<fileVars, known, files, lists, queue, event, scanVars>>

-----------------------------------------------------------------------------
(* Queue::Notify of a file, and PollEntry::CallBack, which a notifier      *)
(* calls with the lock of the wait queue and a controller with files.      *)

Notify(f) ==
  /\ At(f, "Notify")
  /\ IF f \in registered THEN Goto(f, "CallBack") /\ UNCHANGED file
     ELSE LetGo(f, f, "Idle")
  /\ UNCHANGED <<fileVars, epollVars, scanVars>>

Return(a) ==
  IF a \in File THEN LetGo(a, a, "Idle")
  ELSE Goto(a, "Done") /\ UNCHANGED file

CallBack(a) ==
  LET f == file[a]
  IN /\ At(a, "CallBack")
     /\ lists = Nobody
     /\ IF entry[f].state = "Waiting"
          THEN /\ entry' = [entry EXCEPT ![f].state = "Ready"]
               /\ readyList' = PushBack(readyList, f)
               /\ Goto(a, "Wake")
               /\ UNCHANGED file
          ELSE Return(a) /\ UNCHANGED <<entry, readyList>>
     /\ UNCHANGED <<fileVars, known, registered, files, lists, queue, event,
                    scanVars>>

Wake(a) ==
  /\ At(a, "Wake")
  /\ event' = [t \in Waiter |-> event[t] \/ t \in queue]
  /\ Return(a)
  /\ UNCHANGED <<fileVars, known, registered, entry, readyList, files, lists,
                 queue, scanVars>>

-----------------------------------------------------------------------------
(* epoll_ctl.  AddEntry and UpdateEntry hold files until they return,      *)
(* RemoveEntry only while it takes the entry out of the map.  A file has   *)
(* one entry here: two calls on one file at a time are left out, as an add *)
(* beside a removal makes a second entry.                                  *)

StartCtl(c, f, l) ==
  /\ At(c, "Idle") /\ c \in Controller /\ open[f]
  /\ \A d \in Controller : file[d] # f
  /\ Goto(c, l)
  /\ file' = [file EXCEPT ![c] = f]
  /\ UNCHANGED <<fileVars, epollVars, scanVars>>

AddEntry(c) ==
  LET f == file[c]
  IN /\ At(c, "Add")
     /\ files = Nobody
     /\ IF f \in known
          THEN Goto(c, "Done") /\ UNCHANGED <<known, entry, files>>  \* EEXIST
          ELSE /\ files' = c
               /\ known' = known \cup {f}
               /\ \E x \in Flags :
                    entry' = [entry EXCEPT ![f] = NewEntry(x)]
               /\ Goto(c, "Register")
     /\ UNCHANGED <<fileVars, registered, readyList, lists, queue, event,
                    file, scanVars>>

UpdateEntry(c) ==
  /\ At(c, "Mod")
  /\ files = Nobody
  /\ IF file[c] \notin known
       THEN Goto(c, "Done") /\ UNCHANGED files                       \* ENOENT
       ELSE files' = c /\ Goto(c, "Unregister")
  /\ UNCHANGED <<fileVars, known, registered, entry, readyList, lists, queue,
                 event, file, scanVars>>

RemoveKnown(c) ==
  /\ At(c, "Del")
  /\ files = Nobody
  /\ known' = known \ {file[c]}
  /\ Goto(c, IF file[c] \in known THEN "DelUnregister" ELSE "Done")
  /\ UNCHANGED <<fileVars, registered, entry, readyList, files, lists, queue,
                 event, file, scanVars>>

(* EventUnregister and EventRegister take the lock of the file's wait      *)
(* queue for writing.                                                      *)
QueueFree(f) == pc[f] \notin {"CallBack", "Wake"}

EventUnregister(c) ==
  /\ pc[c] \in {"Unregister", "DelUnregister"}
  /\ QueueFree(file[c])
  /\ registered' = registered \ {file[c]}
  /\ Goto(c, IF At(c, "Unregister") THEN "Update" ELSE "DelUnlist")
  /\ UNCHANGED <<fileVars, known, entry, readyList, files, lists, queue,
                 event, file, scanVars>>

Update_Listed(c) ==
  LET f == file[c]
  IN /\ At(c, "Update")
     /\ lists = Nobody
     /\ UNCHANGED readyList
     /\ \E x \in Flags :
          entry' = [entry EXCEPT ![f] = NewEntry(x)]
     /\ Goto(c, "Register")
     /\ UNCHANGED <<fileVars, known, registered, files, lists, queue, event,
                    file, scanVars>>

Update(c) ==
  LET f == file[c]
  IN /\ At(c, "Update")
     /\ lists = Nobody
     /\ Unlist(f)
     /\ \E x \in Flags :
          entry' = [entry EXCEPT ![f] = NewEntry(x)]
     /\ Goto(c, "Register")
     /\ UNCHANGED <<fileVars, known, registered, files, lists, queue, event,
                    file, scanVars>>

DelUnlist(c) ==
  LET f == file[c]
  IN /\ At(c, "DelUnlist")
     /\ lists = Nobody
     /\ Unlist(f)
     /\ entry' = IF entry[f].state = "Ready"
                   THEN [entry EXCEPT ![f].state = "Waiting"] ELSE entry
     /\ Goto(c, "DelFiles")
     /\ UNCHANGED <<fileVars, known, registered, files, lists, queue, event,
                    file, scanVars>>

EventRegister_NoCheck(c) ==
  /\ At(c, "Register")
  /\ QueueFree(file[c])
  /\ registered' = registered \cup {file[c]}
  /\ Goto(c, "Done")
  /\ UNCHANGED <<fileVars, known, entry, readyList, files, lists, queue,
                 event, file, scanVars>>

EventRegister(c) ==
  /\ At(c, "Register")
  /\ QueueFree(file[c])
  /\ registered' = registered \cup {file[c]}
  /\ Goto(c, "Readiness")
  /\ UNCHANGED <<fileVars, known, entry, readyList, files, lists, queue,
                 event, file, scanVars>>

Readiness(c) ==
  /\ At(c, "Readiness")
  /\ Goto(c, IF ready[file[c]] THEN "CallBack" ELSE "Done")
  /\ UNCHANGED <<fileVars, epollVars, file, scanVars>>

Done(c) ==
  /\ At(c, "Done")
  /\ files' = IF files = c THEN Nobody ELSE files
  /\ LetGo(c, file[c], "Idle")
  /\ UNCHANGED <<fileVars, known, registered, entry, readyList, lists, queue,
                 event, scanVars>>

-----------------------------------------------------------------------------
(* ReadEvents and EventsAvailable: one walk over the list under its lock.  *)

StartWait(t, k) ==
  /\ At(t, "Idle") /\ t \in Waiter
  /\ call' = [call EXCEPT ![t] = k]
  /\ Goto(t, "Lock")
  /\ UNCHANGED <<fileVars, epollVars, file, rest, got, ok>>

LockLists(t) ==
  /\ At(t, "Lock")
  /\ lists = Nobody
  /\ lists' = t
  /\ rest' = [rest EXCEPT ![t] = readyList]
  /\ Goto(t, "Scan")
  /\ UNCHANGED <<fileVars, known, registered, entry, readyList, files, queue,
                 event, file, call, got, ok>>

(* The walk is over: after it the call returns, or, the first time,        *)
(* registers, or blocks.                                                   *)
Unlock_Stays(t) ==
  /\ At(t, "Scan")
  /\ rest[t] = <<>> \/ got[t] = max
  /\ lists' = Nobody
  /\ rest' = [rest EXCEPT ![t] = <<>>]
  /\ got' = [got EXCEPT ![t] = 0]
  /\ \E l \in {"Lock", "Block", "Idle", "Enter"} :
       /\ l = CASE t \in queue -> IF got[t] > 0 THEN "Lock" ELSE "Block"
                [] got[t] > 0 \/ call[t] # "wait" -> "Idle"
                [] OTHER -> "Enter"
       /\ Goto(t, l)
       /\ call' = [call EXCEPT ![t] = IF l = "Idle" THEN "none" ELSE @]
  /\ UNCHANGED <<fileVars, known, registered, entry, readyList, files, queue,
                 event, file, ok>>

Unlock(t) ==
  /\ At(t, "Scan")
  /\ rest[t] = <<>> \/ got[t] = max
  /\ lists' = Nobody
  /\ rest' = [rest EXCEPT ![t] = <<>>]
  /\ got' = [got EXCEPT ![t] = 0]
  /\ \E l \in {"Leave", "Block", "Idle", "Enter"} :
       /\ l = CASE t \in queue -> IF got[t] > 0 THEN "Leave" ELSE "Block"
                [] got[t] > 0 \/ call[t] # "wait" -> "Idle"
                [] OTHER -> "Enter"
       /\ Goto(t, l)
       /\ call' = [call EXCEPT ![t] = IF l = "Idle" THEN "none" ELSE @]
  /\ UNCHANGED <<fileVars, known, registered, entry, readyList, files, queue,
                 event, file, ok>>

(* The next entry; Upgrade fails when its file is gone. *)
Visit(t) ==
  LET f == Head(rest[t])
  IN /\ At(t, "Scan")
     /\ rest[t] # <<>> /\ got[t] < max
     /\ rest' = [rest EXCEPT ![t] = Tail(@)]
     /\ IF Alive(f)
          THEN /\ file' = [file EXCEPT ![t] = f]
               /\ Goto(t, "Look")
               /\ UNCHANGED <<entry, readyList>>
          ELSE /\ readyList' = RemoveEntry(readyList, f)
               /\ entry' = [entry EXCEPT ![f].state = "Waiting"]
               /\ UNCHANGED <<file, pc>>
     /\ UNCHANGED <<fileVars, known, registered, files, lists, queue, event,
                    call, got, ok>>

Look(t) ==
  /\ At(t, "Look")
  /\ ok' = [ok EXCEPT ![t] = ready[file[t]]]
  /\ owed' = IF ready[file[t]] /\ call[t] # "avail"
               THEN [owed EXCEPT ![file[t]] = FALSE] ELSE owed
  /\ Goto(t, "Take")
  /\ UNCHANGED <<open, ready, epollVars, file, call, rest, got>>

(* An entry that is not ready waits.  A ready one is reported, and stays   *)
(* in the list only if it is level-triggered; EventsAvailable stops at it. *)
Take(t) ==
  LET f == file[t]
      state == IF ~ok[t] THEN "Waiting"
               ELSE IF call[t] = "avail" THEN "Ready"
               ELSE CASE entry[f].flags = "oneshot" -> "Disabled"
                      [] entry[f].flags = "edge" -> "Waiting"
                      [] OTHER -> "Ready"
  IN /\ At(t, "Take")
     /\ entry' = [entry EXCEPT ![f].state = state]
     /\ readyList' = IF state = "Ready" THEN readyList
                     ELSE RemoveEntry(readyList, f)
     /\ got' = [got EXCEPT ![t] = IF ok[t] THEN @ + 1 ELSE @]
     /\ rest' = IF ok[t] /\ call[t] = "avail"
                  THEN [rest EXCEPT ![t] = <<>>] ELSE rest
     /\ ok' = [ok EXCEPT ![t] = FALSE]
     /\ LetGo(t, f, "Scan")
     /\ UNCHANGED <<fileVars, known, registered, files, lists, queue, event,
                    call>>

-----------------------------------------------------------------------------
(* WaitEpoll around the walks. *)

Enter_NoWalk(t) ==
  /\ At(t, "Enter")
  /\ queue' = queue \cup {t}
  /\ Goto(t, "Block")
  /\ UNCHANGED <<fileVars, known, registered, entry, readyList, files, lists,
                 event, file, scanVars>>

Enter(t) ==
  /\ At(t, "Enter")
  /\ queue' = queue \cup {t}
  /\ Goto(t, "Lock")
  /\ UNCHANGED <<fileVars, known, registered, entry, readyList, files, lists,
                 event, file, scanVars>>

Woken(t) ==
  /\ At(t, "Block") /\ event[t]
  /\ event' = [event EXCEPT ![t] = FALSE]
  /\ Goto(t, "Lock")
  /\ UNCHANGED <<fileVars, known, registered, entry, readyList, files, lists,
                 queue, file, scanVars>>

(* A timeout or a signal. *)
GiveUp(t) ==
  /\ At(t, "Block")
  /\ Goto(t, "Leave")
  /\ UNCHANGED <<fileVars, epollVars, file, scanVars>>

Leave(t) ==
  /\ At(t, "Leave")
  /\ queue' = queue \ {t}
  /\ event' = [event EXCEPT ![t] = FALSE]
  /\ call' = [call EXCEPT ![t] = "none"]
  /\ Goto(t, "Idle")
  /\ UNCHANGED <<fileVars, known, registered, entry, readyList, files, lists,
                 file, rest, got, ok>>

-----------------------------------------------------------------------------
CtlStep(c) ==
  \/ AddEntry(c) \/ UpdateEntry(c) \/ RemoveKnown(c) \/ EventUnregister(c)
  \/ Update(c) \/ DelUnlist(c) \/ EventRegister(c) \/ Readiness(c) \/ Done(c)

WaitStep(t) ==
  \/ LockLists(t) \/ Unlock(t) \/ Visit(t) \/ Look(t) \/ Take(t)
  \/ Enter(t) \/ Woken(t) \/ Leave(t)

Shared(a) == CallBack(a) \/ Wake(a) \/ DropFiles(a) \/ DropLists(a)

Next ==
  \/ \E f \in File : \/ Arrive(f) \/ Drain(f) \/ Reopen(f) \/ Notify(f)
                     \/ \E c \in Closer : Close(c, f)
                     \/ \E c \in Controller, l \in {"Add", "Mod", "Del"} :
                          StartCtl(c, f, l)
  \/ \E c \in Controller : CtlStep(c)
  \/ \E t \in Waiter : \/ \E k \in Calls[t] : StartWait(t, k)
                       \/ WaitStep(t) \/ GiveUp(t)
  \/ \E a \in Actor : Shared(a)

Spec == Init /\ [][Next]_vars

(* Tasks in the kernel run on and get a lock that is freed again and       *)
(* again; nobody has to start a call.                                      *)
FairSpec ==
  /\ Spec
  /\ \A t \in Waiter : SF_vars(WaitStep(t) \/ Shared(t))
  /\ \A c \in Controller : SF_vars(CtlStep(c) \/ Shared(c))
  /\ \A x \in Closer : SF_vars(Shared(x))
  /\ \A f \in File : SF_vars(Notify(f) \/ Shared(f))

-----------------------------------------------------------------------------
(* Properties *)

Leaving(f) ==
  \E a \in Actor : file[a] = f /\ pc[a] \in {"DropFiles", "DropLists",
     "DelUnregister", "DelUnlist", "DelFiles", "DelLists"}

(* The list holds each entry in the state Ready once and no other, so that *)
(* Remove never empties it; its files are known to the epoll object or on  *)
(* their way out of it: a removed file reports no event.                   *)
ListedReady ==
  /\ IsInjective(readyList)
  /\ \A f \in File : f \in Range(readyList) <=> entry[f].state = "Ready"
  /\ \A f \in Range(readyList) : f \in known \/ Leaving(f)

Pending(f) ==
  \/ pc[f] \in {"Notify", "CallBack"}
  \/ \E c \in Controller : file[c] = f /\ pc[c] \in {"Readiness", "CallBack"}
  \/ \E t \in Waiter : file[t] = f /\ At(t, "Take") /\ ok[t]

(* No event is lost between a walk that finds a file idle or takes its     *)
(* event and the notification of the next one: an entry with an event that *)
(* no walk has seen, or a level-triggered one with any event, is in the    *)
(* list, or a callback for it is on its way.                               *)
EventKept ==
  \A f \in registered :
    (/\ Alive(f) /\ ready[f] /\ entry[f].state = "Waiting"
     /\ owed[f] \/ entry[f].flags = "level") => Pending(f)

(* Nobody sleeps on a list that is not empty: WaitEpoll registers before   *)
(* the walk that it blocks after, and a callback wakes after it has put an *)
(* entry into the list.                                                    *)
SleeperNotified ==
  \A t \in Waiter :
    At(t, "Block") /\ ~event[t] /\ readyList # <<>> =>
      \E a \in Actor : At(a, "Wake")

(* A walk that lets go of the last reference to a file waits in the drop   *)
(* of its context for the lock it holds.                                   *)
SelfLocked == \E t \in Waiter : At(t, "DropLists")

LevelReady(f) ==
  f \in registered /\ entry[f].flags = "level" /\ Alive(f) /\ ready[f]

(* A call does not wait for ever while a level-triggered file has an       *)
(* event, unless a walk holds the list's lock for ever.                    *)
Delivered ==
  \A t \in Waiter, f \in File :
    []<>(~(t \in queue /\ LevelReady(f)) \/ SelfLocked)
=============================================================================
