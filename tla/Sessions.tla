------------------------------ MODULE Sessions ------------------------------
(***************************************************************************)
(* Users at work: login, su and the shell (src/user), the tools that the   *)
(* shell starts, and the system calls they make about processes, resource  *)
(* tables, uids, gids and files (syscall.cc, table.cc, child.cc, fs.h).    *)
(*                                                                         *)
(* One system call is one action: what can happen inside it is the subject  *)
(* of Process, OpenFiles and Fat. An account is an entry of passwd, whose   *)
(* text and whose passwords are left out: a person at a prompt is known or  *)
(* is not. No file has the bit 02 that makes open() wait (see OpenFiles).  *)
(*                                                                         *)
(* An operator whose name ends in Mutant is a wrong version of the one that *)
(* follows it; no specification uses it (see README.md).                   *)
(***************************************************************************)
EXTENDS Naturals, FiniteSets, FiniteSetsExt

CONSTANTS
  MaxProcs,   \* bound: the processes that are ever created
  MaxSlots,   \* slots of a resource table, without the unused slot 0
  Users,      \* the accounts in passwd
  Ids,        \* the uid and gid of each
  Disk,       \* uid, gid, permission bits and marks of the files that mkfs wrote
  NewNames,   \* names of files that can be created
  Modes,      \* the modes given to chmod: permission bits
  Commands,   \* what is typed at a shell: program and arguments
  Absent      \* no such file; nobody

Empty == <<>>       \* nullptr in a table
NoId == 0           \* ERR_NO_ID, where open returned no slot
Procs == 1 .. MaxProcs
Slots == 1 .. MaxSlots
Names == DOMAIN Disk \cup NewNames
Rights == {"r", "w", "x"}
Bits == [owner : SUBSET Rights, group : SUBSET Rights, others : SUBSET Rights]
Rw == [owner |-> {"r", "w"}, group |-> {"r"}, others |-> {"r"}] \* 0644
Marks == {"setuid", "setgid"}                                    \* 01000 and 02000
Metadata == [uid : Nat, gid : Nat, bits : Bits, marks : SUBSET Marks]
NoArg == "-"        \* where a command has fewer arguments
Words == Names \cup DOMAIN Modes \cup Users \cup {NoArg}
Typed == [file : Names, from : Words, to : Words]

\* What fs.conf marks.
MarkedPrograms == {"login", "su"}

ASSUME SessionsAssumption ==
  /\ MaxProcs \in Nat \ {0} /\ MaxSlots \in Nat \ {0}
  /\ Ids \in [Users -> [uid : Nat, gid : Nat]]
  /\ {"login", "su", "shell", "passwd", "group", "hosts"} \subseteq DOMAIN Disk
  /\ \A f \in DOMAIN Disk : Disk[f] \in Metadata /\ (f \in MarkedPrograms \/ Disk[f].marks = {})
  /\ Absent \notin Metadata /\ "init" \notin Names
  /\ \A m \in DOMAIN Modes : Modes[m] \in Bits
  /\ Commands \subseteq Typed
  /\ \A c \in Commands :
       /\ c.file \in {"cp", "test", "chmod"} => c.to \in Names
       /\ c.file = "chmod" => c.from \in DOMAIN Modes
  /\ \E u \in Users : Ids[u] = [uid |-> 0, gid |-> 0]

VARIABLES
  prog,     \* the program that a process runs
  at,       \* and where it is in it
  cred,     \* Process::uid and gid
  table,    \* Process::resources, slots 1 .. MaxSlots: files and processes
  job,      \* the command, the account and the descriptor of the child it works with
  owner,    \* (history) the account whose password was given for this process
  meta,     \* for each name its metadata, or Absent
  author,   \* (history) who last wrote the file
  readers,  \* (history) who has read which file
  full      \* (history) Table::open has returned ERR_NO_ID

files == <<meta, author, readers>>
vars == <<prog, at, cred, table, job, owner, meta, author, readers, full>>

Locations == {"unborn", "ask", "fork", "join", "setuid", "setgid", "execv", "start",
              "prompt", "run", "target", "use", "exit", "dead"}

Root == CHOOSE u \in Users : Ids[u] = [uid |-> 0, gid |-> 0]
NoTable == [i \in Slots |-> Empty]
Idle == [cmd |-> [file |-> "login", from |-> NoArg, to |-> NoArg], user |-> Root, id |-> NoId]

\* Init::run of the first process, as root, executes login.
Init ==
  /\ prog = [p \in Procs |-> "init"]
  /\ at = [p \in Procs |-> IF p = 1 THEN "execv" ELSE "unborn"]
  /\ cred = [p \in Procs |-> Ids[Root]]
  /\ table = [p \in Procs |-> NoTable]
  /\ job = [p \in Procs |-> Idle]
  /\ owner = [p \in Procs |-> Root]
  /\ meta = [f \in Names |-> IF f \in DOMAIN Disk THEN Disk[f] ELSE Absent]
  /\ author = [f \in Names |-> Absent]
  /\ readers = {}
  /\ full = FALSE

\* The arguments of the command that a process runs.
Arg(p) == job[p].cmd.from
Target(p) == job[p].cmd.to

-----------------------------------------------------------------------------
(* The system calls *)

Goto(p, loc) == at' = [at EXCEPT ![p] = loc]

\* File::checkPermissions: the owner and root, then the group, then the others.
CheckPermissionsMutant(p, f, mask) ==
  LET b == meta[f].bits
  IN mask \subseteq
       IF cred[p].uid \in {meta[f].uid, 0} THEN b.owner ELSE b.group
CheckPermissions(p, f, mask) ==
  LET b == meta[f].bits
  IN mask \subseteq
       IF cred[p].uid \in {meta[f].uid, 0} THEN b.owner
       ELSE IF cred[p].gid = meta[f].gid THEN b.group
       ELSE b.others

Permitted(p, f, mask) == f \in Names /\ meta[f] # Absent /\ CheckPermissions(p, f, mask)

\* Table::open: the slot that it finds, if any, and the table with r in it.
FirstFreeMutant(t) ==
  LET free == {i \in Slots : t[i] = Empty} IN IF free = {} THEN MaxSlots + 1 ELSE Min(free)
FirstFree(t) == LET free == {i \in Slots : t[i] = Empty} IN IF free = {} THEN NoId ELSE Min(free)
Opened(t, r) == IF FirstFree(t) = NoId THEN t ELSE [t EXCEPT ![FirstFree(t)] = r]
NoticeFull(t) == full' = (full \/ FirstFree(t) = NoId)

\* open: on success the program goes on at loc, on an error it ends.
Open(p, f, mask, loc) ==
  IF Permitted(p, f, mask) /\ FirstFree(table[p]) # NoId
    THEN table' = [table EXCEPT ![p] = Opened(@, <<"file", f>>)] /\ Goto(p, loc)
    ELSE Goto(p, "exit") /\ UNCHANGED table

\* open with O_CREATE: newFile makes a file of the caller's, with mode 0644, and then
\* its permissions are checked as those of any other.
NewFile(p) == [uid |-> cred[p].uid, gid |-> cred[p].gid, bits |-> Rw, marks |-> {}]

OpenCreate(p, f, mask, loc) ==
  IF meta[f] = Absent
    THEN /\ meta' = [meta EXCEPT ![f] = NewFile(p)]
         /\ IF mask \subseteq Rw.owner /\ FirstFree(table[p]) # NoId
              THEN table' = [table EXCEPT ![p] = Opened(@, <<"file", f>>)] /\ Goto(p, loc)
              ELSE Goto(p, "exit") /\ UNCHANGED table
    ELSE Open(p, f, mask, loc) /\ UNCHANGED meta

\* read and write of an open file check its permissions once more.
Read(p, fs) == readers' = readers \cup {<<owner[p], f>> : f \in fs}
MayRead(p, f) == CheckPermissions(p, f, {"r"})
MayWrite(p, f) == CheckPermissions(p, f, {"w"})
Write(p, f) == author' = IF MayWrite(p, f) THEN [author EXCEPT ![f] = owner[p]] ELSE author

\* chmod: the owner and root only; the marks stay.
ChangeMode(p, f, mode) ==
  meta' = IF meta[f] # Absent /\ cred[p].uid \in {0, meta[f].uid}
            THEN [meta EXCEPT ![f].bits = Modes[mode]] ELSE meta

\* exit, and a fatal page fault: closeAll(); joiners go on.
Terminate(p) ==
  /\ Goto(p, "dead")
  /\ table' = [table EXCEPT ![p] = NoTable]
  /\ job' = [job EXCEPT ![p] = Idle]

\* fork: the child has a copy of the table (Table::forkMe), the uid and the gid;
\* the parent a descriptor of the child, unless its table is full.
ChildOfMutant(p) == [Ids[Root] EXCEPT !.uid = cred[p].uid]
ChildOf(p) == cred[p]

Fork(p, user, loc) ==
  \E q \in Procs :
    /\ at[q] = "unborn" /\ \A r \in 1 .. q - 1 : at[r] # "unborn"
    /\ prog' = [prog EXCEPT ![q] = prog[p]]
    /\ at' = [at EXCEPT ![q] = loc, ![p] = "join"]
    /\ cred' = [cred EXCEPT ![q] = ChildOf(p)]
    /\ table' = [table EXCEPT ![q] = table[p], ![p] = Opened(@, <<"process", q>>)]
    /\ job' = [job EXCEPT ![q] = [job[p] EXCEPT !.user = user], ![p].id = FirstFree(table[p])]
    /\ owner' = [owner EXCEPT ![q] = user]
    /\ NoticeFull(table[p])
    /\ UNCHANGED files

\* join waits for the child and closes the descriptor; an invalid one is refused.
MayReturnMutant(p) == job[p].id # NoId => table[p][job[p].id][1] = "process"
MayReturn(p) ==
  LET r == table[p][job[p].id]
  IN job[p].id # NoId => (r[1] = "process" /\ at[r[2]] = "dead")

\* setuid and setgid: only 0 may become another, each by its own.
Privileged(mine, wanted) == mine = 0 \/ mine = wanted

\* execv: the marks of the program change uid and gid, ...
Marked(p, f) ==
  [uid |-> IF "setuid" \in meta[f].marks THEN 0 ELSE cred[p].uid,
   gid |-> IF "setgid" \in meta[f].marks THEN meta[f].gid ELSE cred[p].gid]

\* ... Process::execv closes all descriptors and starts the program, ...
Load(p, f) ==
  /\ prog' = [prog EXCEPT ![p] = f]
  /\ table' = [table EXCEPT ![p] = NoTable]
  /\ Goto(p, CASE f = "su" -> "ask" [] f \in {"login", "shell"} -> "start" [] OTHER -> "run")
  /\ UNCHANGED job

\* ... or the call returns: a child of login or of the shell then comes back to the
\* main loop of its program, as a second one, and su ends. (The restoring of uid and gid
\* is for a program that vanishes during the call, and names are never removed.)
MainLoop == [login |-> "ask", shell |-> "prompt"]
GiveUp(p) ==
  IF prog[p] \in DOMAIN MainLoop
    THEN Goto(p, MainLoop[prog[p]]) /\ UNCHANGED <<table, job>>
    ELSE Terminate(p)

Execv(p) ==
  LET f == job[p].cmd.file
  IN /\ at[p] = "execv"
     /\ IF Permitted(p, f, {"x"})
          THEN cred' = [cred EXCEPT ![p] = Marked(p, f)] /\ Load(p, f)
          ELSE GiveUp(p) /\ UNCHANGED <<prog, cred>>
     /\ UNCHANGED <<owner, files, full>>

-----------------------------------------------------------------------------
(* login and su *)

CanRead(p, f) == Permitted(p, f, {"r"}) /\ FirstFree(table[p]) # NoId

\* getHostname: without it, puts(0) is fatal. verifyUser, when it cannot open passwd,
\* calls strtok(0, ...), which is fatal as well.
Hostname(p) == CanRead(p, "hosts")
VerifyUser(p) == CanRead(p, "passwd")

\* The known user u goes on to login().
Verified(p, u) ==
  /\ VerifyUser(p)
  /\ job' = [job EXCEPT ![p].user = u]
  /\ Goto(p, "fork")
  /\ UNCHANGED table

\* A wrong name or password: login asks again ...
LoginMain(p) ==
  /\ prog[p] = "login"
  /\ \/ at[p] = "start" /\ Hostname(p) /\ Goto(p, "ask") /\ UNCHANGED <<table, job>>
     \/ at[p] = "start" /\ ~Hostname(p) /\ Terminate(p)
     \/ at[p] = "ask" /\ \E u \in Users : Verified(p, u)
     \/ at[p] = "ask" /\ ~VerifyUser(p) /\ Terminate(p)
  /\ UNCHANGED <<prog, cred, owner, files, full>>

\* ... and su ends.
SuMain(p) ==
  /\ prog[p] = "su" /\ at[p] = "ask"
  /\ (Target(p) \in Users /\ Verified(p, Target(p))) \/ Terminate(p)
  /\ UNCHANGED <<prog, cred, owner, files, full>>

\* login(): the child calls setuid, setgid and, when both succeeded, execv; the parent
\* waits for it.
ForkLogin(p) == at[p] = "fork" /\ prog[p] # "shell" /\ Fork(p, job[p].user, "setuid")

SetUid(p) ==
  /\ at[p] = "setuid"
  /\ IF Privileged(cred[p].uid, Ids[job[p].user].uid)
       THEN cred' = [cred EXCEPT ![p].uid = Ids[job[p].user].uid]
       ELSE UNCHANGED cred
  /\ Goto(p, "setgid")
  /\ UNCHANGED <<prog, table, job, owner, files, full>>

SetGid(p) ==
  LET id == Ids[job[p].user]
      ok == Privileged(cred[p].gid, id.gid)
  IN /\ at[p] = "setgid"
     /\ cred' = IF ok THEN [cred EXCEPT ![p].gid = id.gid] ELSE cred
     /\ IF ok /\ cred[p].uid = id.uid
          THEN /\ job' = [job EXCEPT ![p].cmd.file = "shell"]
               /\ Goto(p, "execv")
               /\ UNCHANGED table
          ELSE GiveUp(p)
     /\ UNCHANGED <<prog, owner, files, full>>

\* The parent goes back to its main loop; su returns from main.
Join(p) ==
  /\ at[p] = "join" /\ MayReturn(p)
  /\ IF prog[p] = "su"
       THEN Terminate(p)
       ELSE /\ Goto(p, MainLoop[prog[p]])
            /\ table' = IF job[p].id = NoId THEN table ELSE [table EXCEPT ![p][job[p].id] = Empty]
            /\ job' = [job EXCEPT ![p].id = NoId]
  /\ UNCHANGED <<prog, cred, owner, files, full>>

-----------------------------------------------------------------------------
(* The shell *)

\* Its first calls; puts(0) is fatal when the user or the host has no name.
CurrentUser(p) == CanRead(p, "passwd")
ShellMain(p) ==
  /\ at[p] = "start" /\ prog[p] = "shell"
  /\ IF CurrentUser(p) /\ Hostname(p)
       THEN Goto(p, "prompt") /\ UNCHANGED <<table, job>>
       ELSE Terminate(p)
  /\ Read(p, {f \in {"passwd", "hosts"} : CanRead(p, f)})
  /\ UNCHANGED <<prog, cred, owner, meta, author, full>>

\* getFileType opens the program and never closes it.
FileType(p, f) ==
  /\ NoticeFull(table[p])
  /\ table' = [table EXCEPT ![p] = Opened(@, <<"file", f>>)]

\* executeCommands: without a descriptor the command is "not found".
ExecuteCommands(p) ==
  /\ at[p] = "prompt"
  /\ \E c \in Commands :
       /\ Permitted(p, c.file, {"x"})
       /\ FileType(p, c.file)
       /\ IF FirstFree(table[p]) = NoId
            THEN UNCHANGED <<at, job>>
            ELSE Goto(p, "fork") /\ job' = [job EXCEPT ![p].cmd = c]
  /\ UNCHANGED <<prog, cred, owner, files>>

Exec(p) == at[p] = "fork" /\ prog[p] = "shell" /\ Fork(p, owner[p], "execv")

\* The builtin exit, and a tool that is done.
Exit(p) ==
  /\ at[p] \in {"prompt", "exit"}
  /\ Terminate(p)
  /\ UNCHANGED <<prog, cred, owner, files, full>>

-----------------------------------------------------------------------------
(* The tools. What they read and write they do for the user who started them. *)

Running(p, tool, loc) == prog[p] = tool /\ at[p] = loc

Cat(p) ==
  /\ \/ /\ Running(p, "cat", "run")
        /\ Open(p, Arg(p), {"r"}, "use")
        /\ UNCHANGED readers
     \/ /\ Running(p, "cat", "use")
        /\ Read(p, {f \in {Arg(p)} : MayRead(p, f)})
        /\ Goto(p, "exit")
        /\ UNCHANGED table
  /\ UNCHANGED <<prog, cred, job, owner, meta, author, full>>

Cp(p) ==
  /\ \/ /\ Running(p, "cp", "run")
        /\ Open(p, Arg(p), {"r"}, "target")
        /\ UNCHANGED files
     \/ /\ Running(p, "cp", "target")
        /\ OpenCreate(p, Target(p), {"w"}, "use")
        /\ UNCHANGED <<author, readers>>
     \/ /\ Running(p, "cp", "use")
        /\ IF MayRead(p, Arg(p))
             THEN Read(p, {Arg(p)}) /\ Write(p, Target(p))
             ELSE UNCHANGED <<readers, author>>
        /\ Goto(p, "exit")
        /\ UNCHANGED <<table, meta>>
  /\ UNCHANGED <<prog, cred, job, owner, full>>

Test(p) ==
  /\ \/ /\ Running(p, "test", "run")
        /\ OpenCreate(p, Target(p), {"r", "w"}, "use")
        /\ UNCHANGED author
     \/ /\ Running(p, "test", "use")
        /\ Write(p, Target(p))
        /\ Goto(p, "exit")
        /\ UNCHANGED <<table, meta>>
  /\ UNCHANGED <<prog, cred, job, owner, readers, full>>

Chmod(p) ==
  /\ Running(p, "chmod", "run")
  /\ ChangeMode(p, Target(p), Arg(p))
  /\ Goto(p, "exit")
  /\ UNCHANGED <<prog, cred, table, job, owner, author, readers, full>>

\* ls -l looks up names in passwd and group; strlen(0) is fatal when it cannot.
UserName(p) == CanRead(p, "passwd")
GroupName(p) == CanRead(p, "group")
Ls(p) ==
  /\ Running(p, "ls", "run")
  /\ Read(p, {f \in {"passwd", "group"} : CanRead(p, f)})
  /\ IF UserName(p) /\ GroupName(p) THEN Goto(p, "exit") /\ UNCHANGED <<table, job>> ELSE Terminate(p)
  /\ UNCHANGED <<prog, cred, owner, meta, author, full>>

-----------------------------------------------------------------------------
Next ==
  \E p \in Procs :
    \/ Execv(p) \/ LoginMain(p) \/ SuMain(p) \/ ForkLogin(p) \/ SetUid(p) \/ SetGid(p) \/ Join(p)
    \/ ShellMain(p) \/ ExecuteCommands(p) \/ Exec(p) \/ Exit(p)
    \/ Cat(p) \/ Cp(p) \/ Test(p) \/ Chmod(p) \/ Ls(p)

Spec == Init /\ [][Next]_vars

-----------------------------------------------------------------------------
Entries == {Empty} \cup {<<"file", f>> : f \in Names} \cup {<<"process", q>> : q \in Procs}

TypeOK ==
  /\ prog \in [Procs -> Names \cup {"init"}]
  /\ at \in [Procs -> Locations]
  /\ cred \in [Procs -> [uid : Nat, gid : Nat]]
  /\ table \in [Procs -> [Slots -> Entries]]
  /\ job \in [Procs -> [cmd : Typed, user : Users, id : {NoId} \cup Slots]]
  /\ owner \in [Procs -> Users]
  /\ meta \in [Names -> Metadata \cup {Absent}]
  /\ author \in [Names -> Users \cup {Absent}]
  /\ readers \subseteq Users \X Names
  /\ full \in BOOLEAN

\* Whatever path leads to it (login, su from any shell, a login whose shell could not be
\* executed, a second loop in a child), a shell and what it starts run with the uid and
\* the gid of the account whose password was given; only login and su themselves, which
\* are marked, have root's in the name of somebody else (login.c, su.c, syscall.cc).
OwnCredentials ==
  \A p \in Procs :
    /\ at[p] \notin {"unborn", "dead"} =>
         \/ cred[p] = Ids[owner[p]]
         \/ prog[p] \in {"init", "login", "su"}

\* The parent waits: as long as no table was full, at most one process reads the console
\* (login.c:143, shell.c:exec).
OneReader == ~full => Cardinality({p \in Procs : at[p] \in {"ask", "prompt"}}) <= 1

\* Seen from outside, with persons for processes, every access is allowed.
Access == INSTANCE AccessControl WITH
  Persons <- Users, Account <- Ids, Contents <- {Modes[m] : m \in DOMAIN Modes}, Default <- Rw, Nothing <- Absent,
  inode <- meta, writer <- author, seen <- readers

IsAccessControl == Access!AccessSpec
=============================================================================
