------------------------------ MODULE TermSync ------------------------------
(***************************************************************************)
(* How a terminal view follows the output file of its block                *)
(* (frontend/app/view/term/termwrap.ts): it loads a cached screen and the  *)
(* rest of the file, then appends what events carry, while the shell may   *)
(* be restarted and its file truncated.  Byte p of a file that was         *)
(* truncated e times is <<e, p>>, so a byte shown twice, in the wrong      *)
(* place or from a file that is gone can be told.                          *)
(*                                                                         *)
(* The file, its events and the cache live in wavesrv: an append is        *)
(* published after the file's lock is released, a truncation under it.     *)
(* A request is served at one moment and its answer handled at a later     *)
(* one.  xterm calls back when it has parsed a write, so events are        *)
(* handled in between.  One asynchronous process at a time loads or        *)
(* appends.                                                                *)
(***************************************************************************)
EXTENDS Integers, SequencesExt

CONSTANTS
  MaxSize,    \* the circular file keeps this many bytes
  MaxBytes,   \* bound of the model: bytes of a file
  MaxEpoch,   \* bound of the model: truncations
  MaxLost,    \* bound of the model: append events that get lost
  MaxSaves,   \* bound of the model: snapshots of the screen
  MaxFails,   \* bound of the model: requests that fail
  MaxOpens    \* bound of the model: times the view is opened again

TermSyncAssumption ==
  /\ MaxSize \in Nat \ {0} /\ MaxBytes \in Nat /\ MaxEpoch \in Nat
  /\ MaxLost \in Nat /\ MaxSaves \in Nat /\ MaxFails \in Nat /\ MaxOpens \in Nat

VARIABLES
  file,       \* [epoch, size] of the block's file
  unsent,     \* an append that is in the file and not published yet
  events,     \* published and not delivered
  cache,      \* the saved screen: [epoch, offset, screen]
  saves,      \* saves under way to wavesrv
  snapshot,   \* a screen serialized and not sent
  fileEpoch,  \* truncations this view has seen
  termFileEpoch,
  ptyOffset,
  loaded,
  heldData,   \* appends received before the view is loaded
  pendingAppends,
  appendDrainScheduled,
  shown,      \* the bytes on the screen
  pc,         \* what the process awaits
  epoch,      \* fileEpoch when it started
  append,     \* the append it applies
  cached,     \* the saved screen it has read
  reply,      \* the answer to its request, once there is one
  write,      \* what xterm parses, and the offset after it
  cut,        \* history: a truncation found a write under way
  used        \* how much of each bound is used

serverVars == <<file, unsent, cache>>
viewVars == <<fileEpoch, termFileEpoch, ptyOffset, loaded, heldData, pendingAppends,
              appendDrainScheduled, shown>>
procVars == <<pc, epoch, append, cached, reply, write>>
termVars == <<serverVars, events, saves, snapshot, viewVars, procVars, cut, used>>

Bytes(e, from, to) == [n \in 1 .. to - from |-> <<e, from + n - 1>>]
Larger(a, b) == IF a < b THEN b ELSE a
Start == Larger(0, file.size - MaxSize)   \* DataStartIdx

NoAppend == [at |-> 0, epoch |-> 0, from |-> 0, to |-> 0]
NoWrite == [bytes |-> <<>>, offset |-> 0]
NoScreen == [epoch |-> 0, offset |-> 0, screen |-> <<>>, cut |-> FALSE]

ViewInit ==
  /\ fileEpoch = 0 /\ termFileEpoch = 0 /\ ptyOffset = 0 /\ loaded = FALSE
  /\ heldData = <<>> /\ pendingAppends = <<>> /\ appendDrainScheduled = FALSE /\ shown = <<>>
  /\ pc = "cache" /\ epoch = 0 /\ append = NoAppend /\ cached = NoScreen /\ reply = <<>> /\ write = NoWrite

TermInit ==
  /\ file = [epoch |-> 0, size |-> 0] /\ unsent = <<>> /\ cache = NoScreen
  /\ events = <<>> /\ saves = {} /\ snapshot = <<>>
  /\ ViewInit
  /\ cut = FALSE /\ used = [lost |-> 0, saves |-> 0, fails |-> 0, opens |-> 0]

-----------------------------------------------------------------------------
(* wavesrv                                                                  *)

(* HandleAppendBlockFile: the append, under the file's lock.                *)
AppendData(n) ==
  /\ unsent = <<>> /\ file.size + n <= MaxBytes
  /\ file' = [file EXCEPT !.size = @ + n]
  /\ unsent' = <<[op |-> "append", epoch |-> file.epoch, from |-> file.size, to |-> file.size + n]>>
  /\ UNCHANGED <<cache, events, saves, snapshot, viewVars, procVars, cut, used>>

(* ... and its publication, or its loss on the way.                         *)
Publish ==
  /\ unsent # <<>> /\ unsent' = <<>>
  /\ \/ events' = events \o unsent /\ UNCHANGED used
     \/ used.lost < MaxLost /\ used' = [used EXCEPT !.lost = @ + 1] /\ UNCHANGED events
  /\ UNCHANGED <<file, cache, saves, snapshot, viewVars, procVars, cut>>

(* HandleTruncateBlockFile: the cached screen is deleted, the file gets its *)
(* next epoch and the event goes out under the same lock.                   *)
Truncate ==
  /\ file.epoch < MaxEpoch
  /\ cache' = NoScreen
  /\ file' = [epoch |-> file.epoch + 1, size |-> 0]
  /\ events' = Append(events, [op |-> "truncate", epoch |-> file.epoch + 1, from |-> 0, to |-> 0])
  /\ UNCHANGED <<unsent, saves, snapshot, viewVars, procVars, cut, used>>

(* SaveTerminalState: refused for another file or when it would go back.    *)
(* Left out: the revision, which only orders screens of one offset.         *)
SaveTerminalState(s) ==
  /\ s \in saves /\ saves' = saves \ {s}
  /\ cache' = IF /\ file.size >= s.offset /\ file.epoch = s.epoch
                 /\ ~(cache.epoch = s.epoch /\ cache.offset > s.offset)
                THEN s ELSE cache
  /\ UNCHANGED <<file, unsent, events, snapshot, viewVars, procVars, cut, used>>

-----------------------------------------------------------------------------
(* Events                                                                   *)

(* Where the process awaits nothing it goes on before the next event.       *)
RunsOn == pc \in {"apply", "fresh", "drain"} \/ (pc = "idle" /\ appendDrainScheduled)

Appending == pc \in {"writeMissing", "writeFresh"}

(* handleNewFileSubjectData, "truncate"                                     *)
HandleTruncate ==
  LET e == Head(events)
  IN
  /\ events # <<>> /\ e.op = "truncate" /\ ~RunsOn
  /\ events' = Tail(events)
  /\ fileEpoch' = fileEpoch + 1 /\ termFileEpoch' = e.epoch
  /\ heldData' = <<>> /\ pendingAppends' = <<>> /\ ptyOffset' = 0 /\ shown' = <<>>
  /\ cut' = (cut \/ Appending)
  /\ UNCHANGED <<serverVars, saves, snapshot, loaded, appendDrainScheduled, procVars, used>>

Live(e) == [at |-> fileEpoch, epoch |-> e.epoch, from |-> e.from, to |-> e.to]

(* Mutant: a loaded view takes every append.                                *)
IsCurrentAppendMutant(e) == loaded

(* An append of a file that was truncated since is dropped.                 *)
IsCurrentAppend(e) == loaded /\ e.epoch = termFileEpoch

(* Mutant: an append that arrives while the held ones are written is lost.  *)
HeldMutant(e) == IF loaded \/ Appending THEN heldData ELSE Append(heldData, Live(e))

(* What a view that is not loaded keeps.                                    *)
Held(e) == IF loaded THEN heldData ELSE Append(heldData, Live(e))

(* handleNewFileSubjectData, "append": until the view is loaded it does not *)
(* know which file is current, so all is held.                              *)
HandleAppend ==
  LET e == Head(events)
  IN
  /\ events # <<>> /\ e.op = "append" /\ ~RunsOn
  /\ events' = Tail(events)
  /\ IF IsCurrentAppend(e)
       THEN pendingAppends' = Append(pendingAppends, Live(e)) /\ appendDrainScheduled' = TRUE
       ELSE UNCHANGED <<pendingAppends, appendDrainScheduled>>
  /\ heldData' = Held(e)
  /\ UNCHANGED <<serverVars, saves, snapshot, fileEpoch, termFileEpoch, ptyOffset, loaded, shown, procVars, cut, used>>

-----------------------------------------------------------------------------
(* Loading                                                                  *)

ServerUnmoved == UNCHANGED <<serverVars, events, saves, snapshot>>
Asking == {"cache", "main", "all", "missing"}

(* wavesrv answers with the cached screen, or with the file from an offset  *)
(* on, or from where it begins.                                             *)
Serve ==
  LET asked == CASE pc = "main" -> cached.offset [] pc = "missing" -> ptyOffset [] OTHER -> 0
  IN
  /\ pc \in Asking /\ reply = <<>>
  /\ reply' = IF pc = "cache" THEN <<cache>>
              ELSE <<[epoch |-> file.epoch, from |-> Larger(asked, Start), size |-> file.size]>>
  /\ ServerUnmoved /\ UNCHANGED <<viewVars, pc, epoch, append, cached, write, cut, used>>

GotCache ==
  /\ pc = "cache" /\ reply # <<>>
  /\ cached' = reply[1] /\ pc' = "main" /\ reply' = <<>>
  /\ ServerUnmoved /\ UNCHANGED <<viewVars, epoch, append, write, cut, used>>

Data(r) == [bytes |-> Bytes(r.epoch, r.from, Larger(r.from, r.size)), offset |-> r.size]

CanUseTerminalCache(r) ==
  /\ cached.offset \in 1 .. r.size /\ cached.epoch = r.epoch
  /\ cached.offset >= r.size - MaxSize

(* The cached screen is used, or is not usable: too old, of another file,   *)
(* or with a hash or an index that does not fit.                            *)
GotMain ==
  /\ pc = "main" /\ reply # <<>>
  /\ termFileEpoch' = reply[1].epoch
  /\ \/ /\ CanUseTerminalCache(reply[1])
        /\ write' = [bytes |-> cached.screen, offset |-> cached.offset] /\ pc' = "writeCache"
        /\ cut' = (cut \/ cached.cut)
        /\ UNCHANGED reply
     \/ pc' = "all" /\ reply' = <<>> /\ UNCHANGED <<write, cut>>
  /\ ServerUnmoved
  /\ UNCHANGED <<fileEpoch, ptyOffset, loaded, heldData, pendingAppends, appendDrainScheduled, shown,
                 epoch, append, cached, used>>

GotAll ==
  /\ pc = "all" /\ reply # <<>>
  /\ termFileEpoch' = reply[1].epoch
  /\ write' = Data(reply[1]) /\ pc' = "writeMain"
  /\ ServerUnmoved
  /\ UNCHANGED <<fileEpoch, ptyOffset, loaded, heldData, pendingAppends, appendDrainScheduled, shown,
                 epoch, append, cached, reply, cut, used>>

(* The callback of xterm's write                                            *)
Written == shown' = shown \o write.bytes /\ ptyOffset' = write.offset

(* restoreTerminalCache: a screen that does not fit its index is reset.     *)
CacheWritten ==
  /\ pc = "writeCache"
  /\ \/ Written /\ write' = Data(reply[1]) /\ pc' = "writeMain" /\ UNCHANGED reply
     \/ shown' = <<>> /\ ptyOffset' = write.offset /\ write' = NoWrite /\ pc' = "all" /\ reply' = <<>>
  /\ ServerUnmoved
  /\ UNCHANGED <<fileEpoch, termFileEpoch, loaded, heldData, pendingAppends, appendDrainScheduled,
                 epoch, append, cached, cut, used>>

(* initTerminal: if the file was truncated meanwhile all is loaded again.   *)
MainWritten ==
  /\ pc = "writeMain"
  /\ IF epoch = fileEpoch
       THEN Written /\ pc' = "drain" /\ UNCHANGED epoch
       ELSE shown' = <<>> /\ ptyOffset' = 0 /\ pc' = "cache" /\ epoch' = fileEpoch
  /\ write' = NoWrite /\ reply' = <<>>
  /\ ServerUnmoved
  /\ UNCHANGED <<fileEpoch, termFileEpoch, loaded, heldData, pendingAppends, appendDrainScheduled,
                 append, cached, cut, used>>

(* takeAppendBatch: appends that follow each other are joined.              *)
Joined(q, n) == \A i \in 2 .. n : q[i].from = q[i - 1].to /\ q[i].epoch = q[1].epoch /\ q[i].at = q[1].at
BatchSize(q) == CHOOSE n \in 1 .. Len(q) : Joined(q, n) /\ (n < Len(q) => ~Joined(q, n + 1))
Batch(q) == [q[1] EXCEPT !.to = q[BatchSize(q)].to]

(* What the batch leaves in the queue.                                      *)
Rest(q) == SubSeq(q, BatchSize(q) + 1, Len(q))

(* drainHeldData, then the end of initTerminal                              *)
Drain ==
  /\ pc = "drain"
  /\ \/ /\ epoch = fileEpoch /\ heldData # <<>> /\ heldData[1].epoch # termFileEpoch
        /\ heldData' = Tail(heldData)
        /\ UNCHANGED <<loaded, pc, epoch, append>>
     \/ /\ epoch = fileEpoch /\ heldData # <<>> /\ heldData[1].epoch = termFileEpoch
        /\ heldData' = Rest(heldData)
        /\ append' = [Batch(heldData) EXCEPT !.at = epoch] /\ pc' = "apply"
        /\ UNCHANGED <<loaded, epoch>>
     \/ /\ epoch = fileEpoch /\ heldData = <<>>
        /\ loaded' = TRUE /\ pc' = "idle"
        /\ UNCHANGED <<heldData, epoch, append>>
     \/ /\ epoch # fileEpoch
        /\ pc' = "cache" /\ epoch' = fileEpoch
        /\ UNCHANGED <<loaded, heldData, append>>
  /\ ServerUnmoved
  /\ UNCHANGED <<fileEpoch, termFileEpoch, ptyOffset, pendingAppends, appendDrainScheduled, shown,
                 cached, reply, write, cut, used>>

-----------------------------------------------------------------------------
(* Appending                                                                *)

(* drainPendingAppends                                                      *)
TakePending ==
  /\ pc = "idle" /\ appendDrainScheduled
  /\ IF pendingAppends = <<>>
       THEN appendDrainScheduled' = FALSE /\ UNCHANGED <<pendingAppends, append, pc>>
       ELSE /\ append' = Batch(pendingAppends) /\ pendingAppends' = Rest(pendingAppends)
            /\ pc' = "apply" /\ UNCHANGED appendDrainScheduled
  /\ ServerUnmoved
  /\ UNCHANGED <<fileEpoch, termFileEpoch, ptyOffset, loaded, heldData, shown, epoch, cached, reply, write, cut, used>>

Stale == append.at # fileEpoch
Returned == IF loaded THEN "idle" ELSE "drain"

(* applyFileAppend: what an append shows to be missing is fetched.          *)
ApplyFileAppend ==
  /\ pc = "apply"
  /\ pc' = IF Stale THEN Returned ELSE IF append.from > ptyOffset THEN "missing" ELSE "fresh"
  /\ ServerUnmoved /\ UNCHANGED <<viewVars, epoch, append, cached, reply, write, cut, used>>

GotMissing ==
  /\ pc = "missing" /\ reply # <<>>
  /\ reply' = <<>>
  /\ IF Stale THEN pc' = Returned /\ UNCHANGED write
     ELSE IF Data(reply[1]).bytes = <<>> THEN pc' = "fresh" /\ UNCHANGED write
     ELSE pc' = "writeMissing" /\ write' = Data(reply[1])
  /\ ServerUnmoved /\ UNCHANGED <<viewVars, epoch, append, cached, cut, used>>

(* ... and what was shown already is left out.                              *)
Fresh == Larger(append.from, ptyOffset)

WriteFresh ==
  /\ pc = "fresh"
  /\ IF Stale \/ Fresh >= append.to THEN pc' = Returned /\ UNCHANGED write
     ELSE pc' = "writeFresh" /\ write' = [bytes |-> Bytes(append.epoch, Fresh, append.to), offset |-> append.to]
  /\ ServerUnmoved /\ UNCHANGED <<viewVars, epoch, append, cached, reply, cut, used>>

(* The offset after the write is set whatever happened to the file.         *)
AppendWritten ==
  /\ Appending
  /\ Written /\ write' = NoWrite
  /\ pc' = IF pc = "writeMissing" THEN "fresh" ELSE Returned
  /\ ServerUnmoved
  /\ UNCHANGED <<fileEpoch, termFileEpoch, loaded, heldData, pendingAppends, appendDrainScheduled,
                 epoch, append, cached, reply, cut, used>>

(* A request fails: what is loading is taken for loaded, what is appending  *)
(* stops until the next append.                                             *)
FetchFails ==
  /\ pc \in Asking
  /\ used.fails < MaxFails /\ used' = [used EXCEPT !.fails = @ + 1]
  /\ loaded' = TRUE /\ pc' = "idle" /\ appendDrainScheduled' = FALSE /\ reply' = <<>>
  /\ ServerUnmoved
  /\ UNCHANGED <<fileEpoch, termFileEpoch, ptyOffset, heldData, pendingAppends, shown, epoch, append, cached, write, cut>>

-----------------------------------------------------------------------------
(* processAndCacheData: the screen as it is, with the offset as it is.      *)
ProcessAndCacheData ==
  /\ loaded /\ ~RunsOn /\ snapshot = <<>>
  /\ used.saves < MaxSaves /\ used' = [used EXCEPT !.saves = @ + 1]
  /\ snapshot' = <<[at |-> fileEpoch, save |-> [epoch |-> termFileEpoch, offset |-> ptyOffset,
                                                screen |-> shown, cut |-> cut]]>>
  /\ UNCHANGED <<serverVars, events, saves, viewVars, procVars, cut>>

(* When it has been hashed it is sent, unless the file was truncated.       *)
SendSave ==
  /\ snapshot # <<>> /\ snapshot' = <<>>
  /\ saves' = IF snapshot[1].at = fileEpoch THEN saves \cup {snapshot[1].save} ELSE saves
  /\ UNCHANGED <<serverVars, events, viewVars, procVars, cut, used>>

(* The view is disposed and opened again; a save already sent may come      *)
(* later.                                                                   *)
Open ==
  /\ used.opens < MaxOpens /\ used' = [used EXCEPT !.opens = @ + 1]
  /\ ~RunsOn
  /\ fileEpoch' = 0 /\ termFileEpoch' = 0 /\ ptyOffset' = 0 /\ loaded' = FALSE
  /\ heldData' = <<>> /\ pendingAppends' = <<>> /\ appendDrainScheduled' = FALSE /\ shown' = <<>>
  /\ pc' = "cache" /\ epoch' = 0 /\ append' = NoAppend /\ cached' = NoScreen /\ reply' = <<>> /\ write' = NoWrite
  /\ snapshot' = <<>> /\ cut' = FALSE
  /\ UNCHANGED <<serverVars, events, saves>>

Process ==
  \/ Serve \/ GotCache \/ GotMain \/ GotAll \/ CacheWritten \/ MainWritten \/ Drain
  \/ TakePending \/ ApplyFileAppend \/ GotMissing \/ WriteFresh \/ AppendWritten

TermNext ==
  \/ \E n \in 1 .. 2 : AppendData(n)
  \/ Publish \/ Truncate
  \/ \E s \in saves : SaveTerminalState(s)
  \/ HandleTruncate \/ HandleAppend
  \/ Process \/ FetchFails
  \/ ProcessAndCacheData \/ SendSave \/ Open

TermSpec == TermInit /\ [][TermNext]_termVars

-----------------------------------------------------------------------------
Positions == 0 .. MaxBytes
Epochs == 0 .. MaxEpoch
Screen == Seq(Epochs \X Positions)
AppendRec == [at : 0 .. MaxEpoch, epoch : Epochs, from : Positions, to : Positions]

TermTypeOK ==
  /\ file \in [epoch : Epochs, size : Positions] /\ Len(unsent) <= 1
  /\ {cache} \cup saves \subseteq [epoch : Epochs, offset : Positions, screen : Screen, cut : BOOLEAN]
  /\ fileEpoch \in Epochs /\ termFileEpoch \in Epochs /\ ptyOffset \in Positions
  /\ loaded \in BOOLEAN /\ appendDrainScheduled \in BOOLEAN
  /\ heldData \in Seq(AppendRec) /\ pendingAppends \in Seq(AppendRec) /\ shown \in Screen
  /\ pc \in Asking \cup {"writeCache", "writeMain", "drain", "idle", "apply", "fresh", "writeMissing", "writeFresh"}
  /\ epoch \in Epochs /\ append \in AppendRec /\ cut \in BOOLEAN

(* What a screen shows of a file: its bytes in order, each once, and none   *)
(* left out but those the circular file had dropped.                        *)
Faithful(screen, e, offset) ==
  /\ \A i \in 1 .. Len(screen) : screen[i][1] = e
  /\ \A i \in 2 .. Len(screen) :
       LET hole == screen[i][2] - screen[i - 1][2] - 1
       IN  hole = 0 \/ (hole > 0 /\ screen[i][2] <= Start)
  /\ screen # <<>> => screen[Len(screen)][2] = offset - 1

ViewSettled == loaded /\ pc = "idle" /\ termFileEpoch = file.epoch

(* Whatever loads, appends, truncations, lost events and failed requests    *)
(* came before, a settled view shows the file from somewhere on without a   *)
(* byte twice, out of order or left out, and knows where it is.  (Not after *)
(* a truncation that found an append being written: see NewOutputIsShown.)  *)
ShownIsFile == ViewSettled /\ ~cut => Faithful(shown, file.epoch, ptyOffset)

(* When all events arrived and no request failed, nothing is missing.       *)
AllIsShown ==
  ViewSettled /\ ~cut /\ ~appendDrainScheduled /\ events = <<>> /\ unsent = <<>> /\ used.lost = 0 /\ used.fails = 0
    => ptyOffset = file.size

(* A saved screen can stand for the file up to its offset, whenever and by  *)
(* whichever view it was saved.                                             *)
CacheIsFile == ~cache.cut /\ cache.epoch = file.epoch => Faithful(cache.screen, file.epoch, cache.offset)

(* termwrap.test.ts:787, "drops queued appends when the terminal is         *)
(* truncated", and termwrap.ts:934: old contents do not reach the truncated *)
(* terminal, new output does.                                               *)
NewOutputIsShown ==
  ViewSettled /\ ~appendDrainScheduled /\ events = <<>> /\ unsent = <<>> /\ used.lost = 0 /\ used.fails = 0
    /\ file.size > 0
    => shown # <<>> /\ shown[Len(shown)] = <<file.epoch, file.size - 1>>
=============================================================================
