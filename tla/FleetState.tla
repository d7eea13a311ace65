----------------------------- MODULE FleetState -----------------------------
(***************************************************************************)
(* The live state file of the fleet (src/monitor/fleet_state.py) with the  *)
(* processes of run.py that write it.  Each update reads the whole file,   *)
(* changes the entry of its process, writes the result to one temporary    *)
(* file all processes share, and renames that over the state file.         *)
(*                                                                         *)
(* A process that has the temporary file open goes on writing to it after  *)
(* another one renamed it: then it changes the state file in place, and    *)
(* once that was replaced, a file without a name.                          *)
(***************************************************************************)
EXTENDS Naturals, Sequences, FiniteSets, FiniteSetsExt

CONSTANTS
    Phones,       \* number of phones, each with a worker process in a cycle
    Buffer,       \* parts of a text that reach a file together
    MainUpdates,  \* bound: updates of main
    WorkUpdates   \* bound: updates of one worker

ASSUME FleetAssumption == Buffer \in Nat \ {0} /\ {Phones, MainUpdates, WorkUpdates} \subseteq Nat

Phone == 1 .. Phones
Main  == 0                          \* main of run.py; its entry is "global"
Proc  == {Main} \cup Phone
Limit(p) == IF p = Main THEN MainUpdates ELSE WorkUpdates

VARIABLES
    disk,     \* contents of the files "state" and "tmp"
    there,    \* which of the two exist
    pc,       \* where each process is: "off", "idle", "changed", "writing",
              \* main after an update: "told"
    doc,      \* the data it is about to write
    fd,       \* the file it writes to: "state", "tmp" or "gone"
    pos,      \* how much of its text it has written
    orphans,  \* workers whose main was killed
    done,     \* history: updates each process has completed
    solo,     \* history: no worker ran when main began its last update
    crew      \* history: the workers that wrote since main's last update of
              \* that kind, or main alone if it wrote beside orphans

fileVars == <<disk, there>>
vars == <<disk, there, pc, doc, fd, pos, orphans, done, solo, crew>>

Entry == UNION {{p} \X (0 .. Limit(p)) : p \in Proc}
End   == <<Phones + 1, 0>>          \* the closing brace
Hole  == <<Phones + 2, 0>>          \* a gap of the file: zeros

\* What no file, or a file without valid JSON, is read as.
Default == [p \in {Main} |-> 0]

\* The k-th key in the text of d: "global", then the phones.
Key(d, k) == CHOOSE p \in DOMAIN d : Cardinality({q \in DOMAIN d : q <= p}) = k

Text(d) == LET n == Cardinality(DOMAIN d)
           IN [i \in 1 .. n + 1 |-> IF i <= n THEN <<Key(d, i), d[Key(d, i)]>> ELSE End]

Parses(c) == /\ Len(c) > 1
             /\ c[1] \in Entry /\ c[1][1] = Main
             /\ c[Len(c)] = End
             /\ \A i \in 1 .. (Len(c) - 1) : c[i] \in Entry

\* A key that comes twice has its last value.
Data(c) == LET keys    == {c[i][1] : i \in 1 .. (Len(c) - 1)}
               last(k) == Max({i \in 1 .. (Len(c) - 1) : c[i][1] = k})
           IN [k \in keys |-> c[last(k)][2]]

\* _read_raw
ReadRawOrNothing ==               \* wrong: a broken file is read as {}
    IF "state" \in there /\ Parses(disk["state"]) THEN Data(disk["state"])
                                                  ELSE [p \in {} |-> 0]
ReadRaw == IF "state" \in there /\ Parses(disk["state"]) THEN Data(disk["state"])
                                                         ELSE Default

\* A file after n more parts of text t at position p: a gap reads as zeros.
Put(c, t, p, n) ==
    [i \in 1 .. Max({Len(c), p + n}) |->
        IF i \in (p + 1) .. (p + n) THEN t[i]
        ELSE IF i <= Len(c) THEN c[i] ELSE Hole]

Busy == {p \in Phone : pc[p] # "off"}

\* Who counts as a writer besides main in its turn.
Wrote(p) == CASE p = Main /\ orphans = {}  -> crew
              [] p = Main /\ orphans # {}  -> {Main}
              [] p # Main /\ Main \in crew -> {Main}
              [] OTHER                     -> crew \cup {p}

-----------------------------------------------------------------------------

\* update_global and update_device: the file is read and the process's own
\* entry changed.  main updates only while none of its workers runs.
UpdateAnyTime(p) ==               \* wrong: main does not wait for its workers
    /\ pc[p] \in {"idle", "told"}
    /\ done[p] < Limit(p)                           \* bound
    /\ doc' = [doc EXCEPT ![p] = [k \in DOMAIN ReadRaw \cup {p} |->
                                     IF k = p THEN done[p] + 1 ELSE ReadRaw[k]]]
    /\ pc' = [pc EXCEPT ![p] = "changed"]
    /\ solo' = IF p = Main THEN orphans = {} ELSE solo
    /\ crew' = Wrote(p)
    /\ UNCHANGED <<fileVars, fd, pos, orphans, done>>
Update(p) ==
    /\ pc[p] \in {"idle", "told"}
    /\ done[p] < Limit(p)                           \* bound
    /\ p = Main => Busy \subseteq orphans
    /\ doc' = [doc EXCEPT ![p] = [k \in DOMAIN ReadRaw \cup {p} |->
                                     IF k = p THEN done[p] + 1 ELSE ReadRaw[k]]]
    /\ pc' = [pc EXCEPT ![p] = "changed"]
    /\ solo' = IF p = Main THEN orphans = {} ELSE solo
    /\ crew' = Wrote(p)
    /\ UNCHANGED <<fileVars, fd, pos, orphans, done>>

\* _write_raw: open(STATE_FILE_TMP, "w") truncates what another one writes.
OpenInPlace(p) ==                 \* wrong: the state file itself is rewritten
    /\ pc[p] = "changed"
    /\ there' = there \cup {"state"}
    /\ disk' = [disk EXCEPT !["state"] = <<>>]
    /\ fd' = [fd EXCEPT ![p] = "state"]
    /\ pc' = [pc EXCEPT ![p] = "writing"]
    /\ UNCHANGED <<doc, pos, orphans, done, solo, crew>>
Open(p) ==
    /\ pc[p] = "changed"
    /\ there' = there \cup {"tmp"}
    /\ disk' = [disk EXCEPT !["tmp"] = <<>>]
    /\ fd' = [fd EXCEPT ![p] = "tmp"]
    /\ pc' = [pc EXCEPT ![p] = "writing"]
    /\ UNCHANGED <<doc, pos, orphans, done, solo, crew>>

\* json.dump: the text reaches the file whenever the buffer is full, and the
\* rest when it is closed.
Write(p) ==
    /\ pc[p] = "writing"
    /\ LET t == Text(doc[p])
           n == Min({Buffer, Len(t) - pos[p]})
       IN /\ n > 0
          /\ disk' = IF fd[p] = "gone" THEN disk
                     ELSE [disk EXCEPT ![fd[p]] = Put(@, t, pos[p], n)]
          /\ pos' = [pos EXCEPT ![p] = @ + n]
    /\ UNCHANGED <<there, pc, doc, fd, orphans, done, solo, crew>>

\* What a process has open, after "tmp" was renamed to "state".
Renamed(f) == CASE f = "tmp" -> "state" [] OTHER -> "gone"

\* os.replace, after the file was closed: if another process has renamed it
\* meanwhile there is nothing to rename, and the exception is ignored.
Replace(p) ==
    /\ pc[p] = "writing"
    /\ pos[p] = Len(Text(doc[p]))
    /\ IF "tmp" \in there
       THEN /\ disk' = [f \in {"state", "tmp"} |-> IF f = "state" THEN disk["tmp"] ELSE <<>>]
            /\ there' = {"state"}
            /\ fd' = [q \in Proc |-> IF q = p THEN "gone" ELSE Renamed(fd[q])]
       ELSE /\ fd' = [fd EXCEPT ![p] = "gone"]
            /\ UNCHANGED fileVars
    /\ pc' = [pc EXCEPT ![p] = IF p = Main THEN "told" ELSE "idle"]
    /\ doc' = [doc EXCEPT ![p] = Default]
    /\ pos' = [pos EXCEPT ![p] = 0]
    /\ done' = [done EXCEPT ![p] = @ + 1]
    /\ crew' = IF p = Main /\ solo THEN {} ELSE crew
    /\ solo' = IF p = Main THEN FALSE ELSE solo
    /\ UNCHANGED orphans

-----------------------------------------------------------------------------

\* main, after an update, starts the workers of a cycle, and goes on when all
\* of them ended.  A phone may still be in the hands of an orphan; it is
\* counted once here.
StartWorkers ==
    /\ pc[Main] = "told"
    /\ Busy \subseteq orphans
    /\ \E team \in SUBSET (Phone \ Busy) :
          /\ team # {}
          /\ pc' = [p \in Proc |-> IF p \in team \cup {Main} THEN "idle" ELSE pc[p]]
          /\ done' = [p \in Proc |-> IF p \in team THEN 0 ELSE done[p]]
    /\ UNCHANGED <<fileVars, doc, fd, pos, orphans, solo, crew>>

Gone(p) == /\ pc' = [pc EXCEPT ![p] = "off"]
           /\ doc' = [doc EXCEPT ![p] = Default]
           /\ fd' = [fd EXCEPT ![p] = "gone"]
           /\ pos' = [pos EXCEPT ![p] = 0]

\* A worker returns, or dies wherever it is.
WorkerEnds(p) ==
    /\ p \in Busy
    /\ Gone(p)
    /\ orphans' = orphans \ {p}
    /\ UNCHANGED <<fileVars, done, solo, crew>>

\* fleet_watchdog: after a session that breaks its rules it kills run.py.
\* Workers are spawned, so its pattern does not match their command
\* lines and they go on; nobody but the watchdog reads EMERGENCY_STOP.flag, so
\* a new main may be started at any time.
KillFleetRunner ==
    /\ pc[Main] # "off"
    /\ Gone(Main)
    /\ orphans' = Busy
    /\ UNCHANGED <<fileVars, done, solo, crew>>

MainStarts ==
    /\ pc[Main] = "off"
    /\ pc' = [pc EXCEPT ![Main] = "idle"]
    /\ UNCHANGED <<fileVars, doc, fd, pos, orphans, done, solo, crew>>

Init ==
    /\ disk = [f \in {"state", "tmp"} |-> <<>>]
    /\ there = {}
    /\ pc = [p \in Proc |-> "off"]
    /\ doc = [p \in Proc |-> Default]
    /\ fd = [p \in Proc |-> "gone"]
    /\ pos = [p \in Proc |-> 0]
    /\ orphans = {}
    /\ done = [p \in Proc |-> 0]
    /\ solo = FALSE
    /\ crew = {}

Next ==
    \/ \E p \in Proc : Update(p) \/ Open(p) \/ Write(p) \/ Replace(p)
    \/ StartWorkers
    \/ \E p \in Phone : WorkerEnds(p)
    \/ KillFleetRunner \/ MainStarts

Spec == Init /\ [][Next]_vars

-----------------------------------------------------------------------------

\* Types of the variables: one text per file, one place per process.
TypeOK ==
    /\ DOMAIN disk = {"state", "tmp"}
    /\ \A f \in DOMAIN disk : disk[f] \in Seq(Entry \cup {End, Hole})
    /\ there \subseteq {"state", "tmp"}
    /\ pc \in [Proc -> {"off", "idle", "told", "changed", "writing"}]
    /\ \A p \in Proc : DOMAIN doc[p] \subseteq Proc /\ Main \in DOMAIN doc[p]
    /\ fd \in [Proc -> {"state", "tmp", "gone"}]
    /\ orphans \subseteq Busy
    /\ \A p \in Proc : done[p] \in 0 .. Limit(p)
    /\ crew \subseteq Proc

\* With one writer after the other the state file never breaks and never shows
\* anything but what was written last, wherever a writer died.  And whatever a
\* crowd of workers did to it, main's next update puts it right.
OneWriterIsExact ==
    Cardinality(crew) <= 1 /\ crew \subseteq Phone /\ "state" \in there =>
        /\ Parses(disk["state"])
        /\ \A p \in crew \cup {Main} :
              done[p] > 0 => /\ p \in DOMAIN ReadRaw
                             /\ ReadRaw[p] = done[p]

\* However many workers write, the fleet's own entry is the latest one or was
\* reset: an older cycle, address or status never comes back.
GlobalNeverGoesBack ==
    crew \subseteq Phone => ReadRaw[Main] \in {0, done[Main]}

=============================================================================
