----------------------------- MODULE AtomicFile -----------------------------
(***************************************************************************)
(* config::write_atomic: the content goes to a temporary file in the same  *)
(* directory, is synced, gets its mode and is renamed over the             *)
(* destination.  Several writers may replace the same file (an account     *)
(* file, or a deployment path shared by two certificates); each call uses  *)
(* a temporary name of its own, built from its pid and the time.           *)
(*                                                                         *)
(* A file is named by the call that created it.  The file system is one    *)
(* that journals its metadata in order: a power failure keeps the effect   *)
(* of sync_all, may lose the content of a file that was not synced, and    *)
(* may take back the renames done since the last Flush.                    *)
(***************************************************************************)

CONSTANTS
    Writer,     \* the calls of write_atomic
    Initial,    \* the complete file that the path names at first, or no file
    Faults      \* a subset of {"io", "crash", "power"}

ASSUME InitialAssumption == Initial \notin Writer

VARIABLES
    pc,         \* where each call is
    temps,      \* the calls whose temporary name exists
    body,       \* the content of each call's file: "empty", "part" or "full"
    synced,     \* the calls whose content is on disk
    moded,      \* the calls whose file has the requested mode
    linked,     \* the file the destination path names
    durable     \* the one it would name after a power failure

vars == <<pc, temps, body, synced, moded, linked, durable>>

Busy == {"create", "write", "sync", "mode", "rename", "cleanup"}

TypeOK ==
    /\ pc \in [Writer -> {"off", "done", "failed", "crashed"} \union Busy]
    /\ temps \subseteq Writer
    /\ body \in [Writer -> {"empty", "part", "full"}]
    /\ synced \subseteq Writer
    /\ moded \subseteq Writer
    /\ linked \in Writer \union {Initial}
    /\ durable \in Writer \union {Initial}

Init ==
    /\ pc = [w \in Writer |-> "off"]
    /\ temps = {}
    /\ body = [w \in Writer |-> "empty"]
    /\ synced = {}
    /\ moded = {}
    /\ linked = Initial
    /\ durable = Initial

Goto(w, from, to) ==
    /\ pc[w] = from
    /\ pc' = [pc EXCEPT ![w] = to]

-----------------------------------------------------------------------------

(***************************************************************************)
(* create_dir_all; its error returns before there is a temporary file.     *)
(***************************************************************************)
Start(w) ==
    /\ \/ Goto(w, "off", "create")
       \/ "io" \in Faults /\ Goto(w, "off", "failed")
    /\ UNCHANGED <<temps, body, synced, moded, linked, durable>>

CreateTemp(w) ==
    /\ Goto(w, "create", "write")
    /\ temps' = temps \union {w}
    /\ UNCHANGED <<body, synced, moded, linked, durable>>

(***************************************************************************)
(* write_all is a loop of write calls.                                     *)
(***************************************************************************)
WriteSome(w) ==
    /\ Goto(w, "write", "write")
    /\ body' = [body EXCEPT ![w] = "part"]
    /\ UNCHANGED <<temps, synced, moded, linked, durable>>

\* Mutant: the last part of the data is never written.
WriteTooLittle(w) ==
    /\ Goto(w, "write", "sync")
    /\ body' = [body EXCEPT ![w] = "part"]
    /\ UNCHANGED <<temps, synced, moded, linked, durable>>

WriteAll(w) ==
    /\ Goto(w, "write", "sync")
    /\ body' = [body EXCEPT ![w] = "full"]
    /\ UNCHANGED <<temps, synced, moded, linked, durable>>

\* Mutant: sync_all is left out.
SyncNothing(w) ==
    /\ Goto(w, "sync", "mode")
    /\ UNCHANGED <<temps, body, synced, moded, linked, durable>>

Sync(w) ==
    /\ Goto(w, "sync", "mode")
    /\ synced' = synced \union {w}
    /\ UNCHANGED <<temps, body, moded, linked, durable>>

\* Mutant: the mode is left to the umask.
SetModeNothing(w) ==
    /\ Goto(w, "mode", "rename")
    /\ UNCHANGED <<temps, body, synced, moded, linked, durable>>

SetMode(w) ==
    /\ Goto(w, "mode", "rename")
    /\ moded' = moded \union {w}
    /\ UNCHANGED <<temps, body, synced, linked, durable>>

Rename(w) ==
    /\ Goto(w, "rename", "done")
    /\ linked' = w
    /\ temps' = temps \ {w}
    /\ UNCHANGED <<body, synced, moded, durable>>

(***************************************************************************)
(* Any of these calls may fail instead; the temporary file is removed and  *)
(* the error returned.  The error of remove_file is ignored.               *)
(***************************************************************************)
Fail(w) ==
    /\ "io" \in Faults
    /\ pc[w] \in Busy \ {"cleanup"}
    /\ pc' = [pc EXCEPT ![w] = "cleanup"]
    /\ UNCHANGED <<temps, body, synced, moded, linked, durable>>

Cleanup(w) ==
    /\ Goto(w, "cleanup", "failed")
    /\ temps' \in {temps, temps \ {w}}
    /\ UNCHANGED <<body, synced, moded, linked, durable>>

Crash(w) ==
    /\ "crash" \in Faults
    /\ pc[w] \in Busy
    /\ pc' = [pc EXCEPT ![w] = "crashed"]
    /\ UNCHANGED <<temps, body, synced, moded, linked, durable>>

-----------------------------------------------------------------------------

(***************************************************************************)
(* The file system                                                         *)
(***************************************************************************)
Flush ==
    /\ durable' = linked
    /\ UNCHANGED <<pc, temps, body, synced, moded, linked>>

Truncations(content) ==
    IF content = "full" THEN {"empty", "part", "full"}
    ELSE IF content = "part" THEN {"empty", "part"} ELSE {"empty"}

PowerLoss ==
    /\ "power" \in Faults
    /\ pc' = [w \in Writer |-> IF pc[w] \in Busy THEN "crashed" ELSE pc[w]]
    /\ body' \in [Writer -> {"empty", "part", "full"}]
    /\ \A w \in Writer :
          body'[w] \in IF w \in synced THEN {body[w]} ELSE Truncations(body[w])
    /\ linked' \in {linked, durable}
    /\ durable' = linked'
    /\ UNCHANGED <<temps, synced, moded>>

-----------------------------------------------------------------------------

Steps(w) ==
    \/ Start(w) \/ CreateTemp(w) \/ WriteSome(w) \/ WriteAll(w) \/ Sync(w)
    \/ SetMode(w) \/ Rename(w) \/ Fail(w) \/ Cleanup(w) \/ Crash(w)

Next == Flush \/ PowerLoss \/ \E w \in Writer : Steps(w)

Spec == Init /\ [][Next]_vars

-----------------------------------------------------------------------------

(***************************************************************************)
(* "A concurrent reload or service read never observes a partial file":    *)
(* the path names, now and after a power failure, only files with their    *)
(* whole content and their final mode.                                     *)
(***************************************************************************)
Whole(f) == f = Initial \/ (body[f] = "full" /\ f \in moded)

NeverPartial == Whole(linked) /\ Whole(durable)

(***************************************************************************)
(* A reader that has opened the destination is not disturbed by later      *)
(* writers, failures or power loss: a file never changes once it is named. *)
(***************************************************************************)
OpenedFileIsStable ==
    [][\A w \in Writer : linked = w => body'[w] = body[w] /\ w \in moded']_vars

(***************************************************************************)
(* write_atomic implements the register of AtomicRegister.  A file that is *)
(* not whole is mapped to no version at all.                               *)
(***************************************************************************)
VersionOf(f) == IF Whole(f) THEN f ELSE "garbage"

Renamed == {w \in Writer : pc[w] = "done"}

Register == INSTANCE AtomicRegister WITH
    Version <- Writer,
    value   <- VersionOf(linked),
    durable <- VersionOf(durable),
    written <- Renamed

ImplementsRegister == Register!Spec

=============================================================================
