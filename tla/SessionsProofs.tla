--------------------------- MODULE SessionsProofs ---------------------------
(***************************************************************************)
(* Theorems about Sessions for any accounts, files, commands and tables:   *)
(* who a process acts for, and that it implements AccessControl.           *)
(***************************************************************************)
EXTENDS Sessions, FiniteSetTheorems, WellFoundedInduction, TLAPS

Alive(p) == at[p] \notin {"unborn", "dead"}
IsTool(f) == f \notin {"init", "shell"} \cup MarkedPrograms

\* Where a process can be in the program f.
PlacesOf(f) ==
  IF f = "init" THEN {"execv"}
  ELSE IF f = "login" THEN {"start", "ask", "fork", "join", "setuid", "setgid", "execv"}
  ELSE IF f = "su" THEN {"ask", "fork", "join", "setuid", "setgid", "execv"}
  ELSE IF f = "shell" THEN {"start", "prompt", "fork", "join", "execv"}
  ELSE {"run", "target", "use", "exit"}

\* Which command a process works on: a tool on the one that was typed, a child of login
\* or su that has become another user on that user's shell.
CommandOf(p) ==
  /\ prog[p] = "init" => job[p].cmd.file = "login"
  /\ prog[p] \in MarkedPrograms /\ at[p] = "execv" => job[p].cmd.file = "shell"
  /\ prog[p] = "shell" /\ at[p] \in {"fork", "execv"} => job[p].cmd \in Commands
  /\ IsTool(prog[p]) => job[p].cmd \in Commands /\ job[p].cmd.file = prog[p]

\* Whose uid and gid it has, and whose it is about to have.
CredOf(p) ==
  /\ prog[p] \notin {"init"} \cup MarkedPrograms => cred[p] = Ids[owner[p]]
  /\ prog[p] \in MarkedPrograms =>
       /\ at[p] \in {"setuid", "setgid", "execv"} => owner[p] = job[p].user
       /\ at[p] = "execv" => cred[p] = Ids[owner[p]]

\* What it has opened exists.
Exists(f) == f \in Names /\ meta[f] # Absent
FilesOf(p) ==
  /\ prog[p] = "cat" /\ at[p] = "use" => Exists(Arg(p))
  /\ prog[p] = "cp" /\ at[p] \in {"target", "use"} => Exists(Arg(p))
  /\ prog[p] \in {"cp", "test"} /\ at[p] = "use" => Exists(Target(p))

OwnInv(p) == Alive(p) => at[p] \in PlacesOf(prog[p]) /\ CommandOf(p) /\ CredOf(p) /\ FilesOf(p)

MarksInv == \A f \in Names : meta[f] # Absent => f \in MarkedPrograms \/ meta[f].marks = {}

\* p waits for q.
Waits(p, q) == at[p] = "join" /\ job[p].id # NoId /\ table[p][job[p].id] = <<"process", q>>

\* Somebody waits for every process but the first, until a table was full.
FamilyInv ==
  ~full => \A q \in Procs \ {1} : Alive(q) => \E p \in Procs : Waits(p, q)

IInv == TypeOK /\ (\A p \in Procs : OwnInv(p)) /\ MarksInv /\ FamilyInv

-----------------------------------------------------------------------------
(* Types *)

Jobs == [cmd : Typed, user : Users, id : {NoId} \cup Slots]

LEMMA Constants ==
  /\ Ids \in [Users -> [uid : Nat, gid : Nat]] /\ Root \in Users
  /\ Ids[Root] = [uid |-> 0, gid |-> 0]
  /\ {"login", "su", "shell", "passwd", "group", "hosts"} \subseteq Names
  /\ "init" \notin Names /\ Absent \notin Metadata /\ 1 \in Procs
BY SessionsAssumption DEF Root, Names, Procs

LEMMA JobTypes ==
  ASSUME NEW j \in Jobs
  PROVE  /\ \A u \in Users : [j EXCEPT !.user = u] \in Jobs
         /\ \A i \in {NoId} \cup Slots : [j EXCEPT !.id = i] \in Jobs
         /\ \A c \in Typed : [j EXCEPT !.cmd = c] \in Jobs
         /\ [j EXCEPT !.cmd.file = "shell"] \in Jobs
<1>1. \A u \in Users : [j EXCEPT !.user = u] \in Jobs
  BY DEF Jobs
<1>2. \A i \in {NoId} \cup Slots : [j EXCEPT !.id = i] \in Jobs
  BY DEF Jobs
<1>3. \A c \in Typed : [j EXCEPT !.cmd = c] \in Jobs
  BY DEF Jobs
<1>4. j.cmd \in Typed
  BY DEF Jobs
<1>5. [j.cmd EXCEPT !.file = "shell"] \in Typed
  BY <1>4, Constants DEF Typed
<1>6. [j EXCEPT !.cmd.file = "shell"] = [j EXCEPT !.cmd = [j.cmd EXCEPT !.file = "shell"]]
  OBVIOUS
<1>7. [j EXCEPT !.cmd.file = "shell"] \in Jobs
  BY <1>3, <1>5, <1>6
<1> QED
  BY <1>1, <1>2, <1>3, <1>7

LEMMA IdleType == Idle \in Jobs
<1>1. [file |-> "login", from |-> NoArg, to |-> NoArg] \in Typed
  BY Constants DEF Typed, Words
<1>2. Root \in Users
  BY Constants
<1> QED
  BY <1>1, <1>2 DEF Idle, Jobs

\* A set of numbers that is not empty has a least element.
LEMMA LeastExists ==
  ASSUME NEW T \in SUBSET Nat, T # {}
  PROVE  \E m \in T : \A k \in T : m <= k
<1>1. PICK m \in T : \A k \in T : ~ <<k, m>> \in OpToRel(<, Nat)
  BY NatLessThanWellFounded, WFMin
<1>2. \A k \in T : <<k, m>> \in Nat \X Nat
  OBVIOUS
<1>3. \A k \in T : ~ (k < m)
  BY <1>1, <1>2 DEF OpToRel
<1> QED
  BY <1>3

LEMMA FirstFreeType ==
  ASSUME NEW t \in [Slots -> Entries]
  PROVE  /\ FirstFree(t) \in {NoId} \cup Slots
         /\ FirstFree(t) # NoId => FirstFree(t) \in Slots /\ t[FirstFree(t)] = Empty
<1> DEFINE free == {i \in Slots : t[i] = Empty}
<1>1. CASE free = {}
  BY <1>1 DEF FirstFree
<1>2. CASE free # {}
  <2>1. free \in SUBSET Nat /\ free \subseteq Slots
    BY SessionsAssumption DEF Slots
  <2>2. Min(free) \in free
    <3> HIDE DEF free
    <3>1. \E m \in free : \A k \in free : m <= k
      BY <1>2, <2>1, LeastExists
    <3> QED
      BY <3>1 DEF Min
  <2>3. FirstFree(t) = Min(free)
    BY <1>2 DEF FirstFree
  <2> QED
    BY <2>1, <2>2, <2>3
<1> QED
  BY <1>1, <1>2

LEMMA OpenedType ==
  ASSUME NEW t \in [Slots -> Entries], NEW r \in Entries
  PROVE  /\ Opened(t, r) \in [Slots -> Entries]
         /\ FirstFree(t) # NoId => Opened(t, r)[FirstFree(t)] = r
BY FirstFreeType DEF Opened

LEMMA NoTableType == NoTable \in [Slots -> Entries]
BY DEF NoTable, Entries

\* What the functions of the state are, without the rest of TypeOK.
LEMMA Types ==
  ASSUME TypeOK
  PROVE  /\ prog \in [Procs -> Names \cup {"init"}]
         /\ at \in [Procs -> Locations]
         /\ cred \in [Procs -> [uid : Nat, gid : Nat]]
         /\ table \in [Procs -> [Slots -> Entries]]
         /\ job \in [Procs -> Jobs]
         /\ owner \in [Procs -> Users]
         /\ meta \in [Names -> Metadata \cup {Absent}]
         /\ author \in [Names -> Users \cup {Absent}]
         /\ readers \subseteq Users \X Names
         /\ full \in BOOLEAN
BY DEF TypeOK, Jobs

\* The processes other than p keep what is theirs.
Local(p) ==
  \A r \in Procs \ {p} :
    /\ prog'[r] = prog[r] /\ at'[r] = at[r] /\ cred'[r] = cred[r] /\ owner'[r] = owner[r]
    /\ table'[r] = table[r] /\ job'[r] = job[r]

\* A step of p that leaves its program, its uid and its gid alone.
LEMMA PlainStep ==
  ASSUME TypeOK, NEW p \in Procs,
         NEW loc \in Locations, at' = [at EXCEPT ![p] = loc],
         NEW t \in [Slots -> Entries], table' = [table EXCEPT ![p] = t],
         NEW j \in Jobs, job' = [job EXCEPT ![p] = j],
         UNCHANGED <<prog, cred, owner>>, meta' \in [Names -> Metadata \cup {Absent}],
         author' \in [Names -> Users \cup {Absent}], readers' \subseteq Users \X Names, full' \in BOOLEAN
  PROVE  /\ TypeOK' /\ Local(p)
         /\ at'[p] = loc /\ table'[p] = t /\ job'[p] = j
<1>1. /\ at' \in [Procs -> Locations] /\ table' \in [Procs -> [Slots -> Entries]]
      /\ job' \in [Procs -> Jobs]
  BY Types
<1>2. TypeOK'
  BY <1>1, Types DEF TypeOK, Jobs
<1>3. at'[p] = loc /\ table'[p] = t /\ job'[p] = j
  BY Types
<1>4. Local(p)
  BY Types DEF Local
<1> QED
  BY <1>2, <1>3, <1>4

-----------------------------------------------------------------------------
(* The invariant *)

\* Files are not removed, and marks not given.
FilesKept ==
  /\ \A f \in Names : meta[f] # Absent => meta'[f] # Absent
  /\ MarksInv'

LEMMA FilesSame == MarksInv /\ UNCHANGED meta => FilesKept
BY DEF FilesKept, MarksInv

\* A step of p alone keeps the invariant if p itself does.
LEMMA LocalKept ==
  ASSUME IInv, NEW p \in Procs, TypeOK', Local(p), Alive(p), OwnInv(p)', FilesKept,
         full => full',
         at[p] = "join" => \A q \in Procs : Waits(p, q) => ~Alive(q)
  PROVE  IInv'
<1>1. \A r \in Procs \ {p} : OwnInv(r)'
  <2> SUFFICES ASSUME NEW r \in Procs \ {p} PROVE OwnInv(r)'
    OBVIOUS
  <2>1. OwnInv(r)
    BY DEF IInv
  <2>2. /\ prog'[r] = prog[r] /\ at'[r] = at[r] /\ cred'[r] = cred[r] /\ owner'[r] = owner[r]
        /\ job'[r] = job[r]
    BY DEF Local
  <2>3. \A f : Exists(f) => Exists(f)'
    BY DEF FilesKept, Exists
  <2>4. FilesOf(r) => FilesOf(r)'
    BY <2>2, <2>3 DEF FilesOf, Arg, Target
  <2>5. CommandOf(r) => CommandOf(r)'
    BY <2>2 DEF CommandOf
  <2>6. CredOf(r) => CredOf(r)'
    BY <2>2 DEF CredOf
  <2> QED
    BY <2>1, <2>2, <2>4, <2>5, <2>6 DEF OwnInv, Alive
<1>2. FamilyInv'
  <2> SUFFICES ASSUME ~full', NEW q \in Procs \ {1}, Alive(q)'
               PROVE  \E r \in Procs : Waits(r, q)'
    BY DEF FamilyInv
  <2>1. Alive(q)
    BY DEF Local, Alive
  <2>2. PICK r \in Procs : Waits(r, q)
    BY <2>1 DEF IInv, FamilyInv
  <2>3. r # p
    BY <2>1, <2>2 DEF Waits
  <2>4. Waits(r, q)'
    BY <2>2, <2>3 DEF Local, Waits
  <2> QED
    BY <2>4
<1> QED
  BY <1>1, <1>2 DEF IInv, FilesKept

\* What is known of a process that does something.
LEMMA Own ==
  ASSUME IInv, NEW p \in Procs
  PROVE  /\ TypeOK /\ MarksInv
         /\ table[p] \in [Slots -> Entries] /\ job[p] \in Jobs /\ owner[p] \in Users
         /\ cred[p] \in [uid : Nat, gid : Nat] /\ prog[p] \in Names \cup {"init"}
         /\ Alive(p) => at[p] \in PlacesOf(prog[p]) /\ CommandOf(p) /\ CredOf(p) /\ FilesOf(p)
<1>1. TypeOK /\ MarksInv /\ OwnInv(p)
  BY DEF IInv
<1> QED
  BY <1>1, Types DEF OwnInv

\* A step of p that leaves its program, its credentials, its command and the files alone.
LEMMA Moves ==
  ASSUME IInv, NEW p \in Procs, Alive(p),
         NEW loc \in Locations, at' = [at EXCEPT ![p] = loc],
         NEW t \in [Slots -> Entries], table' = [table EXCEPT ![p] = t],
         NEW j \in Jobs, job' = [job EXCEPT ![p] = j],
         UNCHANGED <<prog, cred, owner, meta, author>>,
         readers' \subseteq Users \X Names, full' \in BOOLEAN, full => full',
         at[p] = "join" => \A q \in Procs : Waits(p, q) => ~Alive(q),
         \/ loc = "dead"
         \/ /\ j.cmd = job[p].cmd /\ loc \in PlacesOf(prog[p])
            /\ loc \notin {"setuid", "setgid", "execv"}
            /\ loc = "fork" => prog[p] # "shell"
            /\ prog[p] \in {"cat", "cp", "test"} /\ loc \in {"target", "use"} => FilesOf(p)'
  PROVE  IInv'
<1>1. TypeOK' /\ Local(p) /\ at'[p] = loc /\ table'[p] = t /\ job'[p] = j
  <2>1. meta' \in [Names -> Metadata \cup {Absent}] /\ author' \in [Names -> Users \cup {Absent}]
    BY Own, Types
  <2> QED
    BY <2>1, Own, PlainStep
<1>2. FilesKept
  BY FilesSame, Own
<1>3. OwnInv(p)'
  <2> SUFFICES ASSUME loc # "dead" PROVE OwnInv(p)'
    BY <1>1 DEF OwnInv, Alive
  <2>1. at[p] \in PlacesOf(prog[p]) /\ CommandOf(p) /\ CredOf(p) /\ FilesOf(p)
    BY Own
  <2>2. CommandOf(p)'
    BY <1>1, <2>1 DEF CommandOf, PlacesOf, IsTool, MarkedPrograms
  <2>3. CredOf(p)'
    BY <1>1, <2>1 DEF CredOf
  <2>4. FilesOf(p)'
    BY <1>1 DEF FilesOf
  <2> QED
    BY <1>1, <2>2, <2>3, <2>4 DEF OwnInv
<1> QED
  BY <1>1, <1>2, <1>3, LocalKept

LEMMA Unchanged ==
  ASSUME TypeOK, NEW p \in Procs
  PROVE  /\ table = [table EXCEPT ![p] = table[p]]
         /\ job = [job EXCEPT ![p] = job[p]]
BY Types

\* exit() and the fatal faults.
LEMMA TerminateKept ==
  ASSUME IInv, NEW p \in Procs, Alive(p), Terminate(p), UNCHANGED <<prog, cred, owner, meta, author>>,
         readers' \subseteq Users \X Names, full' \in BOOLEAN, full => full',
         at[p] = "join" => \A q \in Procs : Waits(p, q) => ~Alive(q)
  PROVE  IInv'
<1>1. /\ at' = [at EXCEPT ![p] = "dead"] /\ "dead" \in Locations
      /\ table' = [table EXCEPT ![p] = NoTable] /\ NoTable \in [Slots -> Entries]
      /\ job' = [job EXCEPT ![p] = Idle] /\ Idle \in Jobs
  BY NoTableType, IdleType DEF Terminate, Goto, Locations
<1> QED
  BY <1>1, Moves

\* A step to another place of the program.
LEMMA GotoKept ==
  ASSUME IInv, NEW p \in Procs, Alive(p), NEW loc \in Locations, Goto(p, loc),
         UNCHANGED <<prog, cred, owner, meta, author, table, job>>,
         readers' \subseteq Users \X Names, full' \in BOOLEAN, full => full', at[p] # "join",
         loc \in PlacesOf(prog[p]) \ {"setuid", "setgid", "execv", "fork"},
         prog[p] \in {"cat", "cp", "test"} /\ loc \in {"target", "use"} => FilesOf(p)'
  PROVE  IInv'
<1>1. /\ at' = [at EXCEPT ![p] = loc]
      /\ table' = [table EXCEPT ![p] = table[p]] /\ table[p] \in [Slots -> Entries]
      /\ job' = [job EXCEPT ![p] = job[p]] /\ job[p] \in Jobs
  BY Own, Unchanged DEF Goto
<1> QED
  BY <1>1, Moves

LEMMA VerifiedKept ==
  ASSUME IInv, NEW p \in Procs, NEW u \in Users, Verified(p, u), at[p] = "ask",
         UNCHANGED <<prog, cred, owner, files, full>>
  PROVE  IInv'
<1>1. Alive(p) /\ prog[p] \in {"login", "su"}
  <2>1. Alive(p)
    BY DEF Alive
  <2> QED
    BY <2>1, Own DEF PlacesOf
<1>2. /\ at' = [at EXCEPT ![p] = "fork"] /\ "fork" \in Locations \cap PlacesOf(prog[p])
      /\ table' = [table EXCEPT ![p] = table[p]] /\ table[p] \in [Slots -> Entries]
  BY <1>1, Own, Unchanged DEF Verified, Goto, Locations, PlacesOf
<1>3. /\ job' = [job EXCEPT ![p] = [job[p] EXCEPT !.user = u]]
      /\ [job[p] EXCEPT !.user = u] \in Jobs /\ [job[p] EXCEPT !.user = u].cmd = job[p].cmd
  <2>1. job' = [job EXCEPT ![p].user = u] /\ job[p] \in Jobs
    BY Own DEF Verified
  <2> QED
    BY <2>1, JobTypes DEF Jobs
<1>4. UNCHANGED <<prog, cred, owner, meta, author, readers, full>>
  BY DEF files
<1>5. readers' \subseteq Users \X Names /\ full' \in BOOLEAN
  BY <1>4, Own, Types
<1> DEFINE j == [job[p] EXCEPT !.user = u]
<1>6. job' = [job EXCEPT ![p] = j] /\ j \in Jobs /\ j.cmd = job[p].cmd
  BY <1>3
<1> HIDE DEF j
<1>7. /\ at[p] # "join" /\ prog[p] # "shell" /\ (full => full')
      /\ UNCHANGED <<prog, cred, owner, meta, author>>
  BY <1>1, <1>4
<1> QED
  BY <1>1, <1>2, <1>5, <1>6, <1>7, Moves

LEMMA LoginMainKept == ASSUME IInv, NEW p \in Procs, LoginMain(p) PROVE IInv'
<1>1. /\ UNCHANGED <<prog, cred, owner, files, full>> /\ UNCHANGED <<prog, cred, owner, meta, author, readers, full>>
      /\ readers' \subseteq Users \X Names /\ full' \in BOOLEAN /\ (full => full')
  BY Own, Types DEF LoginMain, files
<1>2. Alive(p) /\ at[p] # "join" /\ prog[p] = "login"
  BY DEF LoginMain, Alive
<1>3. CASE Goto(p, "ask") /\ UNCHANGED <<table, job>>
  BY <1>1, <1>2, <1>3, GotoKept DEF PlacesOf, Locations
<1>4. CASE Terminate(p)
  BY <1>1, <1>2, <1>4, TerminateKept
<1>5. CASE at[p] = "ask" /\ \E u \in Users : Verified(p, u)
  BY <1>1, <1>5, VerifiedKept
<1> QED
  BY <1>3, <1>4, <1>5 DEF LoginMain

LEMMA SuMainKept == ASSUME IInv, NEW p \in Procs, SuMain(p) PROVE IInv'
<1>1. /\ UNCHANGED <<prog, cred, owner, files, full>> /\ UNCHANGED <<prog, cred, owner, meta, author, readers, full>>
      /\ readers' \subseteq Users \X Names /\ full' \in BOOLEAN /\ (full => full')
  BY Own, Types DEF SuMain, files
<1>2. Alive(p) /\ at[p] = "ask"
  BY DEF SuMain, Alive
<1>3. CASE Terminate(p)
  BY <1>1, <1>2, <1>3, TerminateKept
<1>4. CASE Target(p) \in Users /\ Verified(p, Target(p))
  BY <1>1, <1>2, <1>4, VerifiedKept
<1> QED
  BY <1>3, <1>4 DEF SuMain

LEMMA JoinKept == ASSUME IInv, NEW p \in Procs, Join(p) PROVE IInv'
<1>1. /\ UNCHANGED <<prog, cred, owner, meta, author, readers, full>>
      /\ readers' \subseteq Users \X Names /\ full' \in BOOLEAN /\ (full => full')
  BY Own, Types DEF Join, files
<1>2. Alive(p) /\ at[p] = "join" /\ prog[p] \in {"login", "su", "shell"}
  <2>1. Alive(p) /\ at[p] = "join"
    BY DEF Join, Alive
  <2> QED
    BY <2>1, Own DEF PlacesOf
<1>3. \A q \in Procs : Waits(p, q) => ~Alive(q)
  BY DEF Join, MayReturn, Waits, Alive
<1>4. CASE prog[p] = "su"
  BY <1>1, <1>2, <1>3, <1>4, TerminateKept DEF Join
<1>5. CASE prog[p] \in {"login", "shell"}
  <2> DEFINE loc == MainLoop[prog[p]]
             t == IF job[p].id = NoId THEN table[p] ELSE [table[p] EXCEPT ![job[p].id] = Empty]
             j == [job[p] EXCEPT !.id = NoId]
  <2>1. loc \in Locations \cap PlacesOf(prog[p]) /\ loc \notin {"setuid", "setgid", "execv", "fork", "target", "use"}
    BY <1>5 DEF MainLoop, Locations, PlacesOf
  <2>2. at' = [at EXCEPT ![p] = loc]
    BY <1>5 DEF Join, Goto
  <2>3. table' = [table EXCEPT ![p] = t] /\ t \in [Slots -> Entries]
    <3>1. table[p] \in [Slots -> Entries] /\ table = [table EXCEPT ![p] = table[p]] /\ Empty \in Entries
      BY Own, Unchanged DEF Entries
    <3>2. table' = IF job[p].id = NoId THEN table ELSE [table EXCEPT ![p][job[p].id] = Empty]
      BY <1>5 DEF Join
    <3> QED
      BY <3>1, <3>2
  <2>4. job' = [job EXCEPT ![p] = j] /\ j \in Jobs /\ j.cmd = job[p].cmd
    <3>1. job[p] \in Jobs /\ job' = [job EXCEPT ![p].id = NoId]
      BY <1>5, Own DEF Join
    <3> QED
      BY <3>1, JobTypes DEF Jobs
  <2> HIDE DEF loc, t, j
  <2> QED
    BY <1>1, <1>2, <1>3, <2>1, <2>2, <2>3, <2>4, Moves
<1> QED
  BY <1>2, <1>4, <1>5

LEMMA ReadType ==
  ASSUME TypeOK, NEW p \in Procs, NEW fs, Read(p, fs), fs \subseteq Names
  PROVE  readers' \subseteq Users \X Names
BY Types DEF Read

LEMMA ShellMainKept == ASSUME IInv, NEW p \in Procs, ShellMain(p) PROVE IInv'
<1>1. /\ UNCHANGED <<prog, cred, owner, meta, author, full>> /\ full' \in BOOLEAN /\ (full => full')
  BY Own, Types DEF ShellMain
<1>2. readers' \subseteq Users \X Names
  BY Own, ReadType, Constants DEF ShellMain
<1>3. Alive(p) /\ at[p] # "join" /\ prog[p] = "shell"
  BY DEF ShellMain, Alive
<1>4. CASE Goto(p, "prompt") /\ UNCHANGED <<table, job>>
  BY <1>1, <1>2, <1>3, <1>4, GotoKept DEF PlacesOf, Locations
<1>5. CASE Terminate(p)
  BY <1>1, <1>2, <1>3, <1>5, TerminateKept
<1> QED
  BY <1>4, <1>5 DEF ShellMain

LEMMA ExitKept == ASSUME IInv, NEW p \in Procs, Exit(p) PROVE IInv'
<1>1. /\ UNCHANGED <<prog, cred, owner, meta, author, readers, full>>
      /\ readers' \subseteq Users \X Names /\ full' \in BOOLEAN /\ (full => full')
  BY Own, Types DEF Exit, files
<1>2. Alive(p) /\ at[p] # "join" /\ Terminate(p)
  BY DEF Exit, Alive
<1> QED
  BY <1>1, <1>2, TerminateKept

LEMMA LsKept == ASSUME IInv, NEW p \in Procs, Ls(p) PROVE IInv'
<1>1. /\ UNCHANGED <<prog, cred, owner, meta, author, full>> /\ full' \in BOOLEAN /\ (full => full')
  BY Own, Types DEF Ls
<1>2. readers' \subseteq Users \X Names
  BY Own, ReadType, Constants DEF Ls
<1>3. Alive(p) /\ at[p] # "join" /\ prog[p] = "ls"
  BY DEF Ls, Running, Alive
<1>4. CASE Goto(p, "exit") /\ UNCHANGED <<table, job>>
  BY <1>1, <1>2, <1>3, <1>4, GotoKept DEF PlacesOf, Locations
<1>5. CASE Terminate(p)
  BY <1>1, <1>2, <1>3, <1>5, TerminateKept
<1> QED
  BY <1>4, <1>5 DEF Ls

\* The shell takes a command: the one new command of a process that it starts.
LEMMA ExecuteCommandsKept == ASSUME IInv, NEW p \in Procs, ExecuteCommands(p) PROVE IInv'
<1>1. PICK c \in Commands :
        /\ FileType(p, c.file) /\ Permitted(p, c.file, {"x"})
        /\ IF FirstFree(table[p]) = NoId THEN UNCHANGED <<at, job>>
           ELSE Goto(p, "fork") /\ job' = [job EXCEPT ![p].cmd = c]
  BY DEF ExecuteCommands
<1>2. UNCHANGED <<prog, cred, owner, meta, author, readers>> /\ at[p] = "prompt"
  BY DEF ExecuteCommands, files
<1>3. Alive(p) /\ prog[p] = "shell" /\ c \in Typed /\ c.file \in Names
  <2>1. Alive(p)
    BY <1>2 DEF Alive
  <2> QED
    BY <1>1, <1>2, <2>1, Own, SessionsAssumption DEF PlacesOf, Typed
<1>4. full' \in BOOLEAN /\ (full => full') /\ readers' \subseteq Users \X Names
  BY <1>1, <1>2, Own, Types DEF FileType, NoticeFull
<1> DEFINE t == Opened(table[p], <<"file", c.file>>)
<1>5. table' = [table EXCEPT ![p] = t] /\ t \in [Slots -> Entries]
  <2>1. table' = [table EXCEPT ![p] = t]
    BY <1>1 DEF FileType
  <2>2. <<"file", c.file>> \in Entries
    BY <1>3 DEF Entries
  <2> QED
    BY <2>1, <2>2, Own, OpenedType
<1> HIDE DEF t
<1>6. CASE UNCHANGED <<at, job>>
  <2>1. /\ at' = [at EXCEPT ![p] = "prompt"] /\ "prompt" \in Locations \cap PlacesOf(prog[p])
        /\ job' = [job EXCEPT ![p] = job[p]] /\ job[p] \in Jobs
    BY <1>2, <1>3, <1>6, Own, Types, Unchanged DEF Locations, PlacesOf
  <2> QED
    BY <1>2, <1>3, <1>4, <1>5, <2>1, Moves
<1>7. CASE Goto(p, "fork") /\ job' = [job EXCEPT ![p].cmd = c]
  <2> DEFINE j == [job[p] EXCEPT !.cmd = c]
  <2>1. at' = [at EXCEPT ![p] = "fork"] /\ "fork" \in Locations \cap PlacesOf(prog[p])
    BY <1>3, <1>7 DEF Goto, Locations, PlacesOf
  <2>2. job' = [job EXCEPT ![p] = j] /\ j \in Jobs /\ j.cmd = c
    <3>1. job[p] \in Jobs /\ job' = [job EXCEPT ![p].cmd = c]
      BY <1>7, Own
    <3> QED
      BY <1>3, <3>1, JobTypes DEF Jobs
  <2> HIDE DEF j
  <2>3. TypeOK' /\ Local(p) /\ at'[p] = "fork" /\ job'[p] = j
    <3>1. meta' \in [Names -> Metadata \cup {Absent}] /\ author' \in [Names -> Users \cup {Absent}]
      BY <1>2, Own, Types
    <3> QED
      BY <1>2, <1>4, <1>5, <2>1, <2>2, <3>1, Own, PlainStep
  <2>4. OwnInv(p)'
    <3>1. prog'[p] = "shell" /\ cred'[p] = cred[p] /\ owner'[p] = owner[p]
      BY <1>2, <1>3
    <3>2. cred[p] = Ids[owner[p]]
      BY <1>3, Own DEF CredOf, MarkedPrograms
    <3> QED
      BY <2>1, <2>2, <2>3, <3>1, <3>2
      DEF OwnInv, PlacesOf, CommandOf, CredOf, FilesOf, MarkedPrograms, IsTool
  <2>5. FilesKept
    BY <1>2, Own, FilesSame
  <2> QED
    BY <1>2, <1>3, <1>4, <2>3, <2>4, <2>5, LocalKept
<1> QED
  BY <1>1, <1>6, <1>7

\* The tools.

\* open() of a tool.
LEMMA OpenKept ==
  ASSUME IInv, NEW p \in Procs, NEW f, NEW mask, NEW loc \in {"target", "use"},
         Open(p, f, mask, loc), Alive(p), IsTool(prog[p]),
         UNCHANGED <<prog, cred, owner, meta, author, readers, full, job>>,
         at'[p] = loc /\ Exists(f) /\ prog[p] \in {"cat", "cp", "test"} => FilesOf(p)'
  PROVE  IInv'
<1>1. /\ at[p] # "join" /\ {loc, "exit"} \subseteq PlacesOf(prog[p]) \cap Locations
      /\ loc \notin {"setuid", "setgid", "execv", "fork"}
  BY Own DEF PlacesOf, IsTool, MarkedPrograms, Locations
<1>2. readers' \subseteq Users \X Names /\ full' \in BOOLEAN /\ (full => full')
  BY Own, Types
<1>3. CASE Permitted(p, f, mask) /\ FirstFree(table[p]) # NoId
  <2> DEFINE t == Opened(table[p], <<"file", f>>)
  <2>1. table' = [table EXCEPT ![p] = t] /\ at' = [at EXCEPT ![p] = loc]
    BY <1>3 DEF Open, Goto
  <2>2. Exists(f)
    BY <1>3 DEF Permitted, Exists
  <2>3. t \in [Slots -> Entries]
    <3>1. <<"file", f>> \in Entries
      BY <2>2 DEF Entries, Exists
    <3> QED
      BY <3>1, Own, OpenedType
  <2> HIDE DEF t
  <2>4. at'[p] = loc
    BY <2>1, Own, Types
  <2>5. job' = [job EXCEPT ![p] = job[p]] /\ job[p] \in Jobs
    BY Own, Unchanged
  <2> QED
    BY <1>1, <1>2, <2>1, <2>2, <2>3, <2>4, <2>5, Moves
<1>4. CASE ~(Permitted(p, f, mask) /\ FirstFree(table[p]) # NoId)
  <2>1. Goto(p, "exit") /\ UNCHANGED table
    BY <1>4 DEF Open
  <2> QED
    BY <1>1, <1>2, <2>1, GotoKept
<1> QED
  BY <1>3, <1>4

LEMMA CatKept == ASSUME IInv, NEW p \in Procs, Cat(p) PROVE IInv'
<1>1. UNCHANGED <<prog, cred, job, owner, meta, author, full>> /\ prog[p] = "cat"
  BY DEF Cat, Running
<1>2. Alive(p) /\ IsTool(prog[p]) /\ at[p] # "join"
  BY <1>1 DEF Cat, Running, Alive, IsTool, MarkedPrograms
<1>3. CASE Open(p, Arg(p), {"r"}, "use") /\ UNCHANGED readers
  <2>1. Exists(Arg(p)) => FilesOf(p)'
    BY <1>1 DEF FilesOf, Exists, Arg
  <2> QED
    BY <1>1, <1>2, <1>3, <2>1, OpenKept
<1>4. CASE Running(p, "cat", "use") /\ Read(p, {f \in {Arg(p)} : MayRead(p, f)})
           /\ Goto(p, "exit") /\ UNCHANGED table
  <2>1. Arg(p) \in Names
    BY <1>2, <1>4, Own DEF FilesOf, Running, Exists
  <2>2. readers' \subseteq Users \X Names
    BY <1>4, <2>1, Own, ReadType
  <2>3. full' \in BOOLEAN /\ (full => full') /\ "exit" \in Locations /\ "exit" \in PlacesOf(prog[p])
    BY <1>1, Own, Types DEF Locations, PlacesOf
  <2> QED
    BY <1>1, <1>2, <1>4, <2>2, <2>3, GotoKept
<1> QED
  BY <1>3, <1>4 DEF Cat

\* A step of a tool that may change the files.
LEMMA ToolKept ==
  ASSUME IInv, NEW p \in Procs, Alive(p), IsTool(prog[p]),
         NEW loc \in {"target", "use", "exit"}, at' = [at EXCEPT ![p] = loc],
         NEW t \in [Slots -> Entries], table' = [table EXCEPT ![p] = t],
         UNCHANGED <<prog, cred, owner, job, full>>,
         meta' \in [Names -> Metadata \cup {Absent}], FilesKept,
         author' \in [Names -> Users \cup {Absent}], readers' \subseteq Users \X Names,
         prog[p] \in {"cat", "cp", "test"} /\ loc # "exit" => FilesOf(p)'
  PROVE  IInv'
<1>1. job' = [job EXCEPT ![p] = job[p]] /\ job[p] \in Jobs /\ full' \in BOOLEAN /\ (full => full')
  BY Own, Types, Unchanged
<1>2. TypeOK' /\ Local(p) /\ at'[p] = loc
  <2>1. loc \in Locations
    BY DEF Locations
  <2> QED
    BY <1>1, <2>1, Own, PlainStep
<1>3. at[p] \in PlacesOf(prog[p]) /\ CommandOf(p) /\ CredOf(p) /\ at[p] # "join"
  BY Own DEF PlacesOf, IsTool, MarkedPrograms
<1>4. loc \in PlacesOf(prog[p])'
  BY DEF PlacesOf, IsTool, MarkedPrograms
<1>5. CommandOf(p)' /\ CredOf(p)'
  BY <1>2, <1>3 DEF CommandOf, CredOf, IsTool, MarkedPrograms
<1>6. FilesOf(p)'
  BY <1>2 DEF FilesOf
<1>7. OwnInv(p)'
  BY <1>2, <1>4, <1>5, <1>6 DEF OwnInv
<1> QED
  BY <1>1, <1>2, <1>3, <1>7, LocalKept

\* open() with O_CREATE of a tool: the new file has no marks.
LEMMA NewFileKept ==
  ASSUME IInv, NEW p \in Procs, NEW f \in Names, meta[f] = Absent,
         meta' = [meta EXCEPT ![f] = NewFile(p)]
  PROVE  meta' \in [Names -> Metadata \cup {Absent}] /\ FilesKept /\ meta'[f] # Absent
<1>1. NewFile(p) \in Metadata /\ NewFile(p).marks = {}
  <2>1. Rw \in Bits
    BY DEF Rw, Bits, Rights
  <2> QED
    BY <2>1, Own DEF NewFile, Metadata
<1>2. NewFile(p) # Absent
  BY <1>1, Constants
<1>3. meta \in [Names -> Metadata \cup {Absent}] /\ MarksInv
  BY Own, Types
<1>4. MarksInv'
  BY <1>1, <1>3 DEF MarksInv
<1> QED
  BY <1>1, <1>2, <1>3, <1>4 DEF FilesKept

LEMMA OpenCreateKept ==
  ASSUME IInv, NEW p \in Procs, NEW f \in Names, NEW mask,
         OpenCreate(p, f, mask, "use"), Alive(p), IsTool(prog[p]),
         UNCHANGED <<prog, cred, owner, job, author, readers, full>>,
         Exists(f)' /\ prog[p] \in {"cat", "cp", "test"} => FilesOf(p)'
  PROVE  IInv'
<1>1. CASE meta[f] = Absent
  <2>1. meta' = [meta EXCEPT ![f] = NewFile(p)]
    BY <1>1 DEF OpenCreate
  <2>2. meta' \in [Names -> Metadata \cup {Absent}] /\ FilesKept /\ meta'[f] # Absent
    BY <1>1, <2>1, NewFileKept
  <2>3. author' \in [Names -> Users \cup {Absent}] /\ readers' \subseteq Users \X Names
    BY Own, Types
  <2>4. prog[p] \in {"cat", "cp", "test"} => FilesOf(p)'
    BY <2>2 DEF Exists
  <2>5. CASE mask \subseteq Rw.owner /\ FirstFree(table[p]) # NoId
    <3> DEFINE t == Opened(table[p], <<"file", f>>)
    <3>1. table' = [table EXCEPT ![p] = t] /\ at' = [at EXCEPT ![p] = "use"]
      BY <1>1, <2>5 DEF OpenCreate, Goto
    <3>2. t \in [Slots -> Entries]
      <4>1. <<"file", f>> \in Entries
        BY DEF Entries
      <4> QED
        BY <4>1, Own, OpenedType
    <3> HIDE DEF t
    <3> QED
      BY <2>2, <2>3, <2>4, <3>1, <3>2, ToolKept
  <2>6. CASE ~(mask \subseteq Rw.owner /\ FirstFree(table[p]) # NoId)
    <3>1. at' = [at EXCEPT ![p] = "exit"] /\ table' = [table EXCEPT ![p] = table[p]] /\ table[p] \in [Slots -> Entries]
      BY <1>1, <2>6, Own, Unchanged DEF OpenCreate, Goto
    <3> QED
      BY <2>2, <2>3, <2>4, <3>1, ToolKept
  <2> QED
    BY <2>5, <2>6
<1>2. CASE meta[f] # Absent
  <2>1. Open(p, f, mask, "use") /\ UNCHANGED meta
    BY <1>2 DEF OpenCreate
  <2>2. Exists(f) => Exists(f)'
    BY <2>1 DEF Exists
  <2> QED
    BY <2>1, <2>2, OpenKept
<1> QED
  BY <1>1, <1>2

\* The file that cp, test and chmod work on has a name.
LEMMA ToolArgs ==
  ASSUME IInv, NEW p \in Procs, Alive(p)
  PROVE  /\ prog[p] \in {"cp", "test", "chmod"} => Target(p) \in Names /\ IsTool(prog[p])
         /\ prog[p] = "chmod" => Arg(p) \in DOMAIN Modes
<1> SUFFICES ASSUME prog[p] \in {"cp", "test", "chmod"}
             PROVE  /\ Target(p) \in Names /\ IsTool(prog[p])
                    /\ prog[p] = "chmod" => Arg(p) \in DOMAIN Modes
  OBVIOUS
<1>1. IsTool(prog[p])
  BY DEF IsTool, MarkedPrograms
<1>2. job[p].cmd \in Commands /\ job[p].cmd.file = prog[p]
  BY <1>1, Own DEF CommandOf
<1> QED
  BY <1>1, <1>2, SessionsAssumption DEF Target, Arg

LEMMA WriteType ==
  ASSUME TypeOK, NEW p \in Procs, NEW f, Write(p, f)
  PROVE  author' \in [Names -> Users \cup {Absent}]
BY Types DEF Write

\* A tool that is done.
LEMMA ToolDone ==
  ASSUME IInv, NEW p \in Procs, Alive(p), IsTool(prog[p]), Goto(p, "exit"),
         UNCHANGED <<prog, cred, owner, job, full, table>>,
         meta' \in [Names -> Metadata \cup {Absent}], FilesKept,
         author' \in [Names -> Users \cup {Absent}], readers' \subseteq Users \X Names
  PROVE  IInv'
<1>1. at' = [at EXCEPT ![p] = "exit"] /\ table' = [table EXCEPT ![p] = table[p]] /\ table[p] \in [Slots -> Entries]
  BY Own, Unchanged DEF Goto
<1> QED
  BY <1>1, ToolKept

LEMMA CpKept == ASSUME IInv, NEW p \in Procs, Cp(p) PROVE IInv'
<1>1. UNCHANGED <<prog, cred, job, owner, full>> /\ prog[p] = "cp"
  BY DEF Cp, Running
<1>2. Alive(p) /\ IsTool(prog[p]) /\ Target(p) \in Names
  <2>1. Alive(p)
    BY <1>1 DEF Cp, Running, Alive
  <2> QED
    BY <1>1, <2>1, ToolArgs
<1>3. CASE Open(p, Arg(p), {"r"}, "target") /\ UNCHANGED files
  <2>1. UNCHANGED <<prog, cred, owner, meta, author, readers, full, job>>
    BY <1>1, <1>3 DEF files
  <2>2. at'[p] = "target" /\ Exists(Arg(p)) => FilesOf(p)'
    BY <1>1, <2>1 DEF FilesOf, Exists, Arg
  <2> QED
    BY <1>2, <1>3, <2>1, <2>2, OpenKept
<1>4. CASE Running(p, "cp", "target") /\ OpenCreate(p, Target(p), {"w"}, "use") /\ UNCHANGED <<author, readers>>
  <2>1. Exists(Arg(p))
    BY <1>2, <1>4, Own DEF FilesOf, Running
  <2>2. Exists(Arg(p))'
    <3>1. meta' = meta \/ (meta[Target(p)] = Absent /\ meta' = [meta EXCEPT ![Target(p)] = NewFile(p)])
      BY <1>4 DEF OpenCreate
    <3>2. FilesKept \/ meta' = meta
      BY <1>2, <3>1, NewFileKept
    <3> QED
      BY <1>1, <2>1, <3>2 DEF FilesKept, Exists, Arg
  <2>3. Exists(Target(p))' => FilesOf(p)'
    BY <1>1, <2>2 DEF FilesOf, Target, Arg
  <2>4. Exists(Target(p))' <=> Target(p) \in Names /\ meta'[Target(p)] # Absent
    BY <1>1 DEF Exists, Target
  <2>5. ASSUME NEW f, f = Target(p), Exists(f)' PROVE FilesOf(p)'
    BY <2>3, <2>4, <2>5 DEF Exists
  <2> QED
    BY <1>1, <1>2, <1>4, <2>5, OpenCreateKept
<1>5. CASE /\ Running(p, "cp", "use")
           /\ IF MayRead(p, Arg(p)) THEN Read(p, {Arg(p)}) /\ Write(p, Target(p))
                                    ELSE UNCHANGED <<readers, author>>
           /\ Goto(p, "exit")
           /\ UNCHANGED <<table, meta>>
  <2>1. meta' \in [Names -> Metadata \cup {Absent}] /\ FilesKept
    BY <1>5, Own, Types, FilesSame
  <2>2. author' \in [Names -> Users \cup {Absent}] /\ readers' \subseteq Users \X Names
    <3>1. Arg(p) \in Names
      BY <1>2, <1>5, Own DEF FilesOf, Running, Exists
    <3>2. CASE Read(p, {Arg(p)}) /\ Write(p, Target(p))
      <4>1. {Arg(p)} \subseteq Names
        BY <3>1
      <4> QED
        BY <3>2, <4>1, Own, ReadType, WriteType
    <3>3. CASE UNCHANGED <<readers, author>>
      BY <3>3, Own, Types
    <3> QED
      BY <1>5, <3>2, <3>3
  <2> QED
    BY <1>1, <1>2, <1>5, <2>1, <2>2, ToolDone
<1> QED
  BY <1>3, <1>4, <1>5 DEF Cp

LEMMA TestKept == ASSUME IInv, NEW p \in Procs, Test(p) PROVE IInv'
<1>1. UNCHANGED <<prog, cred, job, owner, readers, full>> /\ prog[p] = "test"
  BY DEF Test, Running
<1>2. Alive(p) /\ IsTool(prog[p]) /\ Target(p) \in Names
  <2>1. Alive(p)
    BY <1>1 DEF Test, Running, Alive
  <2> QED
    BY <1>1, <2>1, ToolArgs
<1>3. CASE OpenCreate(p, Target(p), {"r", "w"}, "use") /\ UNCHANGED author
  <2>1. ASSUME NEW f, f = Target(p), Exists(f)' PROVE FilesOf(p)'
    BY <1>1, <2>1 DEF FilesOf, Target, Exists
  <2> QED
    BY <1>1, <1>2, <1>3, <2>1, OpenCreateKept
<1>4. CASE Write(p, Target(p)) /\ Goto(p, "exit") /\ UNCHANGED <<table, meta>>
  <2>1. meta' \in [Names -> Metadata \cup {Absent}] /\ FilesKept /\ readers' \subseteq Users \X Names
    BY <1>1, <1>4, Own, Types, FilesSame
  <2>2. author' \in [Names -> Users \cup {Absent}]
    BY <1>4, Own, WriteType
  <2> QED
    BY <1>1, <1>2, <1>4, <2>1, <2>2, ToolDone
<1> QED
  BY <1>3, <1>4 DEF Test

\* chmod() leaves the marks.
LEMMA ChmodKept == ASSUME IInv, NEW p \in Procs, Chmod(p) PROVE IInv'
<1>1. /\ UNCHANGED <<prog, cred, table, job, owner, author, readers, full>>
      /\ prog[p] = "chmod" /\ Goto(p, "exit") /\ ChangeMode(p, Target(p), Arg(p))
  BY DEF Chmod, Running
<1>2. Alive(p) /\ IsTool(prog[p]) /\ Target(p) \in Names /\ Modes[Arg(p)] \in Bits
  <2>1. Alive(p)
    BY <1>1 DEF Chmod, Running, Alive
  <2> QED
    BY <1>1, <2>1, ToolArgs, SessionsAssumption
<1>3. meta \in [Names -> Metadata \cup {Absent}] /\ MarksInv /\ author' \in [Names -> Users \cup {Absent}]
      /\ readers' \subseteq Users \X Names
  BY <1>1, Own, Types
<1>4. CASE meta' = meta
  BY <1>1, <1>2, <1>3, <1>4, FilesSame, ToolDone
<1>5. CASE meta[Target(p)] # Absent /\ meta' = [meta EXCEPT ![Target(p)].bits = Modes[Arg(p)]]
  <2> DEFINE f == Target(p)
             new == [meta[f] EXCEPT !.bits = Modes[Arg(p)]]
  <2>1. meta[f] \in Metadata
    BY <1>2, <1>3, <1>5
  <2>2. new \in Metadata /\ new.marks = meta[f].marks
    BY <1>2, <2>1 DEF Metadata
  <2>3. meta' = [meta EXCEPT ![f] = new]
    BY <1>5
  <2> HIDE DEF f, new
  <2>4. new # Absent
    BY <2>2, Constants
  <2>5. meta' \in [Names -> Metadata \cup {Absent}] /\ \A g \in Names : meta'[g] = IF g = f THEN new ELSE meta[g]
    BY <1>3, <2>2, <2>3
  <2>6. MarksInv'
    BY <1>3, <1>5, <2>2, <2>5 DEF MarksInv, f
  <2>7. FilesKept
    BY <2>4, <2>5, <2>6 DEF FilesKept
  <2> QED
    BY <1>1, <1>2, <1>3, <2>5, <2>7, ToolDone
<1> QED
  BY <1>1, <1>4, <1>5 DEF ChangeMode

\* What a process does on its way to another user and to a program: it changes all that
\* is its own but the account.
LEMMA OwnStep ==
  ASSUME IInv, NEW p \in Procs, Alive(p), at[p] # "join",
         NEW f \in Names \cup {"init"}, prog' = [prog EXCEPT ![p] = f],
         NEW loc \in Locations, at' = [at EXCEPT ![p] = loc],
         NEW c \in [uid : Nat, gid : Nat], cred' = [cred EXCEPT ![p] = c],
         NEW t \in [Slots -> Entries], table' = [table EXCEPT ![p] = t],
         NEW j \in Jobs, job' = [job EXCEPT ![p] = j],
         UNCHANGED <<owner, meta, author, readers, full>>,
         loc # "dead" =>
           /\ loc \in PlacesOf(f) \ {"fork", "target", "use"}
           /\ f # "init"
           /\ f \in MarkedPrograms =>
                /\ loc \in {"setuid", "setgid", "execv"} => owner[p] = j.user
                /\ loc = "execv" => c = Ids[owner[p]] /\ j.cmd.file = "shell"
           /\ f \notin MarkedPrograms => c = Ids[owner[p]] /\ loc # "execv"
           /\ IsTool(f) => j.cmd \in Commands /\ j.cmd.file = f
  PROVE  IInv'
<1>1. /\ prog' \in [Procs -> Names \cup {"init"}] /\ at' \in [Procs -> Locations]
      /\ cred' \in [Procs -> [uid : Nat, gid : Nat]]
      /\ table' \in [Procs -> [Slots -> Entries]] /\ job' \in [Procs -> Jobs]
      /\ prog'[p] = f /\ at'[p] = loc /\ cred'[p] = c /\ job'[p] = j /\ owner'[p] = owner[p]
  BY Own, Types
<1>2. TypeOK'
  <2>1. UNCHANGED <<owner, meta, author, readers, full>>
    OBVIOUS
  <2> QED
    BY <1>1, <2>1, Own DEF TypeOK, Jobs
<1>3. Local(p)
  BY Own, Types DEF Local
<1>4. OwnInv(p)'
  <2> SUFFICES ASSUME loc # "dead" PROVE OwnInv(p)'
    BY <1>1 DEF OwnInv, Alive
  <2>1. CommandOf(p)'
    BY <1>1 DEF CommandOf, IsTool, MarkedPrograms
  <2>2. CredOf(p)'
    BY <1>1 DEF CredOf
  <2>3. FilesOf(p)'
    BY <1>1 DEF FilesOf
  <2> QED
    BY <1>1, <2>1, <2>2, <2>3 DEF OwnInv
<1>5. FilesKept /\ (full => full')
  BY Own, FilesSame
<1> QED
  BY <1>2, <1>3, <1>4, <1>5, LocalKept

LEMMA GiveUpKept ==
  ASSUME IInv, NEW p \in Procs, at[p] \in {"setgid", "execv"}, GiveUp(p),
         NEW c \in [uid : Nat, gid : Nat], cred' = [cred EXCEPT ![p] = c],
         prog[p] = "shell" => c = Ids[owner[p]],
         UNCHANGED <<prog, owner, meta, author, readers, full>>
  PROVE  IInv'
<1>1. /\ Alive(p) /\ at[p] # "join"
      /\ prog' = [prog EXCEPT ![p] = prog[p]] /\ prog[p] \in Names \cup {"init"}
      /\ table[p] \in [Slots -> Entries] /\ table = [table EXCEPT ![p] = table[p]]
      /\ job[p] \in Jobs /\ job = [job EXCEPT ![p] = job[p]]
  BY Own, Types, Unchanged DEF Alive
<1>2. CASE prog[p] \in {"login", "shell"}
  <2> DEFINE loc == MainLoop[prog[p]]
  <2>1. at' = [at EXCEPT ![p] = loc] /\ UNCHANGED <<table, job>>
    BY <1>2 DEF GiveUp, Goto, MainLoop
  <2>2. loc \in Locations /\ loc \in PlacesOf(prog[p]) \ {"setuid", "setgid", "execv", "fork", "target", "use"}
    BY <1>2 DEF MainLoop, Locations, PlacesOf
  <2>3. prog[p] # "init" /\ ~IsTool(prog[p]) /\ (prog[p] \notin MarkedPrograms => c = Ids[owner[p]])
    BY <1>2 DEF IsTool, MarkedPrograms
  <2> HIDE DEF loc
  <2> QED
    BY <1>1, <2>1, <2>2, <2>3, OwnStep, ZenonT(60)
<1>3. CASE prog[p] \notin {"login", "shell"}
  <2>1. Terminate(p)
    BY <1>3 DEF GiveUp, MainLoop
  <2>2. /\ at' = [at EXCEPT ![p] = "dead"] /\ "dead" \in Locations
        /\ table' = [table EXCEPT ![p] = NoTable] /\ NoTable \in [Slots -> Entries]
        /\ job' = [job EXCEPT ![p] = Idle] /\ Idle \in Jobs
    BY <2>1, NoTableType, IdleType DEF Terminate, Goto, Locations
  <2> QED
    BY <1>1, <2>2, OwnStep
<1> QED
  BY <1>2, <1>3

LEMMA IdsType == \A u \in Users : /\ Ids[u] \in [uid : Nat, gid : Nat]
                                  /\ Ids[u].uid \in Nat /\ Ids[u].gid \in Nat
                                  /\ Ids[u] = [uid |-> Ids[u].uid, gid |-> Ids[u].gid]
BY Constants

LEMMA SetUidKept == ASSUME IInv, NEW p \in Procs, SetUid(p) PROVE IInv'
<1> DEFINE u == job[p].user
           c == IF Privileged(cred[p].uid, Ids[u].uid) THEN [cred[p] EXCEPT !.uid = Ids[u].uid] ELSE cred[p]
<1>1. at[p] = "setuid" /\ UNCHANGED <<owner, meta, author, readers, full, prog, table, job>>
  BY DEF SetUid, files
<1>2. Alive(p) /\ at[p] # "join" /\ prog[p] \in {"login", "su"} /\ owner[p] = u
  <2>1. Alive(p)
    BY <1>1 DEF Alive
  <2>2. prog[p] \in {"login", "su"}
    BY <1>1, <2>1, Own DEF PlacesOf
  <2> QED
    BY <1>1, <2>1, <2>2, Own DEF CredOf, MarkedPrograms
<1>3. /\ prog' = [prog EXCEPT ![p] = prog[p]] /\ prog[p] \in Names \cup {"init"}
      /\ table[p] \in [Slots -> Entries] /\ table' = [table EXCEPT ![p] = table[p]]
      /\ job[p] \in Jobs /\ job' = [job EXCEPT ![p] = job[p]]
  BY <1>1, Own, Types, Unchanged
<1>4. u \in Users /\ cred[p] \in [uid : Nat, gid : Nat] /\ cred \in [Procs -> [uid : Nat, gid : Nat]]
  BY <1>3, Own, Types DEF Jobs
<1>5. c \in [uid : Nat, gid : Nat] /\ cred' = [cred EXCEPT ![p] = c]
  <2>1. Ids[u].uid \in Nat
    BY <1>4, IdsType
  <2>2. IF Privileged(cred[p].uid, Ids[u].uid) THEN cred' = [cred EXCEPT ![p].uid = Ids[u].uid] ELSE UNCHANGED cred
    BY DEF SetUid
  <2> QED
    BY <1>4, <2>1, <2>2
<1>6. at' = [at EXCEPT ![p] = "setgid"] /\ "setgid" \in Locations
  BY DEF SetUid, Goto, Locations
<1>7. /\ "setgid" \in PlacesOf(prog[p]) \ {"fork", "target", "use"}
      /\ prog[p] # "init" /\ prog[p] \in MarkedPrograms /\ ~IsTool(prog[p])
  BY <1>2 DEF PlacesOf, IsTool, MarkedPrograms
<1> HIDE DEF c
<1> QED
  BY <1>1, <1>2, <1>3, <1>5, <1>6, <1>7, OwnStep

LEMMA SetGidKept == ASSUME IInv, NEW p \in Procs, SetGid(p) PROVE IInv'
<1> DEFINE u == job[p].user
           id == Ids[u]
           ok == Privileged(cred[p].gid, id.gid)
           c == IF ok THEN [cred[p] EXCEPT !.gid = id.gid] ELSE cred[p]
           j == [job[p] EXCEPT !.cmd.file = "shell"]
<1>1. at[p] = "setgid" /\ UNCHANGED <<owner, meta, author, readers, full, prog>>
  BY DEF SetGid, files
<1>2. Alive(p) /\ at[p] # "join" /\ prog[p] \in {"login", "su"} /\ owner[p] = u
  <2>1. Alive(p)
    BY <1>1 DEF Alive
  <2>2. prog[p] \in {"login", "su"}
    BY <1>1, <2>1, Own DEF PlacesOf
  <2> QED
    BY <1>1, <2>1, <2>2, Own DEF CredOf, MarkedPrograms
<1>3. u \in Users /\ cred[p] \in [uid : Nat, gid : Nat] /\ cred \in [Procs -> [uid : Nat, gid : Nat]] /\ job[p] \in Jobs
  BY Own, Types DEF Jobs
<1>4. c \in [uid : Nat, gid : Nat] /\ cred' = [cred EXCEPT ![p] = c]
  <2>1. Ids[u].gid \in Nat
    BY <1>3, IdsType
  <2>2. cred' = IF ok THEN [cred EXCEPT ![p].gid = id.gid] ELSE cred
    BY DEF SetGid
  <2> QED
    BY <1>3, <2>1, <2>2
<1>5. CASE ok /\ cred[p].uid = id.uid
  <2>1. c = Ids[owner[p]]
    <3>1. id = [uid |-> id.uid, gid |-> id.gid]
      BY <1>3, IdsType
    <3>2. c = [uid |-> cred[p].uid, gid |-> id.gid]
      BY <1>3, <1>5
    <3> QED
      BY <1>2, <1>5, <3>1, <3>2
  <2>2. at' = [at EXCEPT ![p] = "execv"] /\ job' = [job EXCEPT ![p].cmd.file = "shell"] /\ UNCHANGED table
    BY <1>5 DEF SetGid, Goto
  <2>3. job' = [job EXCEPT ![p] = j] /\ j \in Jobs /\ j.cmd.file = "shell" /\ j.user = u
    <3>1. j \in Jobs
      BY <1>3, JobTypes
    <3>2. j.cmd.file = "shell" /\ j.user = u
      BY <1>3 DEF Jobs, Typed
    <3> QED
      BY <2>2, <3>1, <3>2
  <2>4. /\ "execv" \in Locations /\ "execv" \in PlacesOf(prog[p]) \ {"fork", "target", "use"}
        /\ prog[p] # "init" /\ prog[p] \in MarkedPrograms /\ ~IsTool(prog[p])
    BY <1>2 DEF PlacesOf, IsTool, MarkedPrograms, Locations
  <2>5. /\ prog' = [prog EXCEPT ![p] = prog[p]] /\ prog[p] \in Names \cup {"init"}
        /\ table[p] \in [Slots -> Entries] /\ table' = [table EXCEPT ![p] = table[p]]
    BY <1>1, <2>2, Own, Types, Unchanged
  <2>6. /\ at' = [at EXCEPT ![p] = "execv"] /\ "execv" \in Locations
        /\ UNCHANGED <<owner, meta, author, readers, full>>
    BY <1>1, <2>2, <2>4
  <2>7. /\ "execv" \in PlacesOf(prog[p]) \ {"fork", "target", "use"}
        /\ prog[p] # "init" /\ prog[p] \in MarkedPrograms /\ ~IsTool(prog[p])
        /\ owner[p] = j.user /\ c = Ids[owner[p]] /\ j.cmd.file = "shell"
    BY <1>2, <2>1, <2>3, <2>4
  <2>8. /\ job' = [job EXCEPT ![p] = j] /\ j \in Jobs
        /\ cred' = [cred EXCEPT ![p] = c] /\ c \in [uid : Nat, gid : Nat]
        /\ Alive(p) /\ at[p] # "join"
    BY <1>2, <1>4, <2>3
  <2> HIDE DEF c, j, u
  <2> QED
    BY <2>5, <2>6, <2>7, <2>8, OwnStep
<1>6. CASE ~(ok /\ cred[p].uid = id.uid)
  <2>1. GiveUp(p)
    BY <1>6 DEF SetGid
  <2> HIDE DEF c
  <2> QED
    BY <1>1, <1>2, <1>4, <2>1, GiveUpKept
<1> QED
  BY <1>5, <1>6

LEMMA ExecvKept == ASSUME IInv, NEW p \in Procs, Execv(p) PROVE IInv'
<1> DEFINE f == job[p].cmd.file
<1>1. at[p] = "execv" /\ UNCHANGED <<owner, meta, author, readers, full>>
  BY DEF Execv, files
<1>2. Alive(p) /\ at[p] # "join"
  BY <1>1 DEF Alive
<1>3. CASE Permitted(p, f, {"x"})
  <2> DEFINE c == Marked(p, f)
             loc == CASE f = "su" -> "ask" [] f \in {"login", "shell"} -> "start" [] OTHER -> "run"
  <2>1. cred' = [cred EXCEPT ![p] = c] /\ Load(p, f)
    BY <1>3 DEF Execv
  <2>2. f \in Names /\ f # "init" /\ meta[f] # Absent
    BY <1>3, Constants DEF Permitted
  <2>3. meta[f] \in Metadata /\ (f \in MarkedPrograms \/ meta[f].marks = {})
    BY <2>2, Own, Types DEF MarksInv
  <2>4. c \in [uid : Nat, gid : Nat] /\ (f \notin MarkedPrograms => c = cred[p])
    BY <2>3, Own DEF Marked, Metadata
  <2>5. f \notin MarkedPrograms => c = Ids[owner[p]]
    <3>1. prog[p] \in {"init", "login", "su", "shell"}
      BY <1>1, <1>2, Own DEF PlacesOf
    <3>2. prog[p] = "init" => f = "login"
      BY <1>2, Own DEF CommandOf
    <3>3. prog[p] # "init" => cred[p] = Ids[owner[p]]
      BY <1>1, <1>2, Own DEF CredOf
    <3> QED
      BY <2>4, <3>2, <3>3 DEF MarkedPrograms
  <2>6. IsTool(f) => job[p].cmd \in Commands /\ job[p].cmd.file = f
    BY <1>1, <1>2, Own DEF CommandOf, IsTool, MarkedPrograms, PlacesOf
  <2>7. loc \in Locations /\ loc \in PlacesOf(f) \ {"fork", "target", "use", "setuid", "setgid", "execv"}
    BY <2>2 DEF Locations, PlacesOf
  <2>8. /\ prog' = [prog EXCEPT ![p] = f] /\ at' = [at EXCEPT ![p] = loc]
        /\ table' = [table EXCEPT ![p] = NoTable] /\ NoTable \in [Slots -> Entries]
        /\ job' = [job EXCEPT ![p] = job[p]] /\ job[p] \in Jobs
    BY <2>1, NoTableType, Own, Unchanged DEF Load, Goto
  <2> HIDE DEF f, c, loc
  <2> QED
    BY <1>1, <1>2, <2>1, <2>2, <2>4, <2>5, <2>6, <2>7, <2>8, OwnStep
<1>4. CASE ~Permitted(p, f, {"x"})
  <2>1. GiveUp(p) /\ UNCHANGED <<prog, cred>>
    BY <1>4 DEF Execv
  <2>2. cred' = [cred EXCEPT ![p] = cred[p]] /\ cred[p] \in [uid : Nat, gid : Nat]
    BY <2>1, Own, Types
  <2>3. prog[p] = "shell" => cred[p] = Ids[owner[p]]
    BY <1>2, Own DEF CredOf, MarkedPrograms
  <2>4. at[p] \in {"setgid", "execv"} /\ UNCHANGED <<prog, owner, meta, author, readers, full>>
    BY <1>1, <2>1
  <2> HIDE DEF f
  <2> QED
    BY <2>1, <2>2, <2>3, <2>4, GiveUpKept
<1> QED
  BY <1>3, <1>4

\* fork: the child has the uid and the gid of the parent, and works on its command.
LEMMA ForkKept ==
  ASSUME IInv, NEW p \in Procs, NEW user \in Users, NEW loc \in {"setuid", "execv"},
         Fork(p, user, loc), at[p] = "fork",
         IF prog[p] = "shell" THEN loc = "execv" /\ user = owner[p] ELSE loc = "setuid"
  PROVE  IInv'
<1>1. PICK q \in Procs :
        /\ at[q] = "unborn"
        /\ prog' = [prog EXCEPT ![q] = prog[p]]
        /\ at' = [at EXCEPT ![q] = loc, ![p] = "join"]
        /\ cred' = [cred EXCEPT ![q] = ChildOf(p)]
        /\ table' = [table EXCEPT ![q] = table[p], ![p] = Opened(@, <<"process", q>>)]
        /\ job' = [job EXCEPT ![q] = [job[p] EXCEPT !.user = user], ![p].id = FirstFree(table[p])]
        /\ owner' = [owner EXCEPT ![q] = user]
        /\ NoticeFull(table[p])
        /\ UNCHANGED files
  BY DEF Fork
<1> DEFINE t == Opened(table[p], <<"process", q>>)
           j == [job[p] EXCEPT !.user = user]
           k == [job[p] EXCEPT !.id = FirstFree(table[p])]
<1>2. p # q /\ Alive(p) /\ prog[p] \in {"login", "su", "shell"}
  <2>1. Alive(p)
    BY DEF Alive
  <2> QED
    BY <1>1, <2>1, Own DEF PlacesOf
<1>3. t \in [Slots -> Entries] /\ (FirstFree(table[p]) # NoId => t[FirstFree(table[p])] = <<"process", q>>)
  <2>1. <<"process", q>> \in Entries
    BY DEF Entries
  <2> QED
    BY <2>1, Own, OpenedType
<1>4. /\ j \in Jobs /\ j.cmd = job[p].cmd /\ j.user = user
      /\ k \in Jobs /\ k.cmd = job[p].cmd /\ k.user = job[p].user /\ k.id = FirstFree(table[p])
  <2>1. job[p] \in Jobs /\ FirstFree(table[p]) \in {NoId} \cup Slots
    BY Own, FirstFreeType
  <2> QED
    BY <2>1, JobTypes DEF Jobs
<1>5. /\ prog \in [Procs -> Names \cup {"init"}] /\ at \in [Procs -> Locations]
      /\ cred \in [Procs -> [uid : Nat, gid : Nat]] /\ owner \in [Procs -> Users]
      /\ table \in [Procs -> [Slots -> Entries]] /\ job \in [Procs -> Jobs]
  BY Own, Types
<1>6. /\ table' = [table EXCEPT ![q] = table[p], ![p] = t]
      /\ job' = [job EXCEPT ![q] = j, ![p] = k]
  <2>1. table' = [table EXCEPT ![q] = table[p], ![p] = t]
    BY <1>1, <1>2, <1>5
  <2>2. job' = [job EXCEPT ![q] = j, ![p] = k]
    BY <1>1, <1>2, <1>5
  <2> QED
    BY <2>1, <2>2
<1> HIDE DEF t, j, k
<1>7. \A r \in Procs : /\ prog'[r] = IF r = q THEN prog[p] ELSE prog[r]
                       /\ at'[r] = IF r = p THEN "join" ELSE IF r = q THEN loc ELSE at[r]
                       /\ cred'[r] = IF r = q THEN cred[p] ELSE cred[r]
                       /\ table'[r] = IF r = p THEN t ELSE IF r = q THEN table[p] ELSE table[r]
                       /\ job'[r] = IF r = p THEN k ELSE IF r = q THEN j ELSE job[r]
                       /\ owner'[r] = IF r = q THEN user ELSE owner[r]
  BY <1>1, <1>2, <1>5, <1>6 DEF ChildOf
<1>8. TypeOK'
  <2>1. /\ prog' \in [Procs -> Names \cup {"init"}] /\ at' \in [Procs -> Locations]
        /\ cred' \in [Procs -> [uid : Nat, gid : Nat]] /\ owner' \in [Procs -> Users]
    BY <1>1, <1>5 DEF ChildOf, Locations
  <2>2. table' \in [Procs -> [Slots -> Entries]] /\ job' \in [Procs -> Jobs]
    BY <1>3, <1>4, <1>5, <1>6
  <2>3. UNCHANGED <<meta, author, readers>> /\ full' \in BOOLEAN
    BY <1>1, Own, Types DEF files, NoticeFull
  <2> QED
    BY <2>1, <2>2, <2>3, Own DEF TypeOK, Jobs
<1>9. FilesKept
  BY <1>1, Own, FilesSame DEF files
<1>10. OwnInv(p)'
  <2>1. prog'[p] = prog[p] /\ at'[p] = "join" /\ cred'[p] = cred[p] /\ owner'[p] = owner[p]
    BY <1>2, <1>7
  <2>2. prog[p] = "shell" => cred[p] = Ids[owner[p]]
    BY <1>2, Own DEF CredOf, MarkedPrograms
  <2> QED
    BY <1>2, <2>1, <2>2
    DEF OwnInv, PlacesOf, CommandOf, CredOf, FilesOf, IsTool, MarkedPrograms
<1>11. OwnInv(q)'
  <2>1. /\ prog'[q] = prog[p] /\ at'[q] = loc /\ cred'[q] = cred[p] /\ owner'[q] = user
        /\ job'[q] = j
    BY <1>2, <1>7
  <2>2. prog[p] = "shell" => cred[p] = Ids[owner[p]] /\ job[p].cmd \in Commands
    BY <1>2, Own DEF CredOf, CommandOf, MarkedPrograms
  <2> QED
    BY <1>2, <1>4, <2>1, <2>2
    DEF OwnInv, PlacesOf, CommandOf, CredOf, FilesOf, IsTool, MarkedPrograms
<1>12. ASSUME NEW r \in Procs \ {p, q} PROVE OwnInv(r)'
  <2>1. OwnInv(r)
    BY DEF IInv
  <2>2. /\ prog'[r] = prog[r] /\ at'[r] = at[r] /\ cred'[r] = cred[r] /\ owner'[r] = owner[r]
        /\ job'[r] = job[r] /\ meta' = meta
    BY <1>1, <1>7 DEF files
  <2> QED
    BY <2>1, <2>2
    DEF OwnInv, Alive, CommandOf, CredOf, FilesOf, Exists, Arg, Target
<1>13. FamilyInv'
  <2> SUFFICES ASSUME ~full', NEW c \in Procs \ {1}, Alive(c)'
               PROVE  \E r \in Procs : Waits(r, c)'
    BY DEF FamilyInv
  <2>1. ~full /\ FirstFree(table[p]) # NoId
    BY <1>1, Own, Types DEF NoticeFull
  <2>2. CASE c = q
    <3>1. Waits(p, q)'
      BY <1>2, <1>3, <1>4, <1>7, <2>1 DEF Waits
    <3> QED
      BY <2>2, <3>1
  <2>3. CASE c # q
    <3>1. Alive(c)
      BY <1>2, <1>7, <2>3 DEF Alive
    <3>2. PICK r \in Procs : Waits(r, c)
      BY <2>1, <3>1 DEF IInv, FamilyInv
    <3>3. r # p /\ r # q
      BY <1>1, <3>2 DEF Waits
    <3>4. Waits(r, c)'
      BY <1>7, <3>2, <3>3 DEF Waits
    <3> QED
      BY <3>4
  <2> QED
    BY <2>2, <2>3
<1>14. \A r \in Procs : OwnInv(r)'
  BY <1>10, <1>11, <1>12
<1> QED
  BY <1>8, <1>9, <1>13, <1>14 DEF IInv, FilesKept

LEMMA InitInv == Init => IInv
<1> SUFFICES ASSUME Init PROVE IInv
  OBVIOUS
<1>1. TypeOK
  <2>1. /\ prog \in [Procs -> Names \cup {"init"}] /\ at \in [Procs -> Locations]
        /\ cred \in [Procs -> [uid : Nat, gid : Nat]] /\ owner \in [Procs -> Users]
    BY Constants DEF Init, Locations
  <2>2. table \in [Procs -> [Slots -> Entries]] /\ job \in [Procs -> Jobs]
    BY NoTableType, IdleType DEF Init
  <2>3. meta \in [Names -> Metadata \cup {Absent}]
    BY SessionsAssumption DEF Init, Names
  <2>4. author \in [Names -> Users \cup {Absent}] /\ readers \subseteq Users \X Names /\ full \in BOOLEAN
    BY DEF Init
  <2> QED
    BY <2>1, <2>2, <2>3, <2>4 DEF TypeOK, Jobs
<1>2. ASSUME NEW p \in Procs PROVE OwnInv(p)
  <2>1. prog[p] = "init" /\ at[p] \in {"execv", "unborn"} /\ job[p].cmd.file = "login"
    BY DEF Init, Idle
  <2> QED
    BY <2>1 DEF OwnInv, Alive, PlacesOf, CommandOf, CredOf, FilesOf, IsTool, MarkedPrograms
<1>3. MarksInv
  BY SessionsAssumption DEF Init, MarksInv
<1>4. FamilyInv
  BY DEF Init, FamilyInv, Alive
<1> QED
  BY <1>1, <1>2, <1>3, <1>4 DEF IInv

LEMMA NextInv == IInv /\ [Next]_vars => IInv'
<1> SUFFICES ASSUME IInv, [Next]_vars PROVE IInv'
  OBVIOUS
<1>1. ASSUME NEW p \in Procs, ForkLogin(p) PROVE IInv'
  <2>1. job[p].user \in Users
    BY Own DEF Jobs
  <2> QED
    BY <1>1, <2>1, ForkKept DEF ForkLogin
<1>2. ASSUME NEW p \in Procs, Exec(p) PROVE IInv'
  <2>1. owner[p] \in Users
    BY Own
  <2> QED
    BY <1>2, <2>1, ForkKept DEF Exec
<1>3. CASE UNCHANGED vars
  <2>1. UNCHANGED <<prog, at, cred, table, job, owner, meta, author, readers, full>>
    BY <1>3 DEF vars
  <2>2. TypeOK' /\ MarksInv' /\ FamilyInv'
    BY <2>1 DEF IInv, TypeOK, MarksInv, FamilyInv, Alive, Waits
  <2>3. \A p \in Procs : OwnInv(p)'
    BY <2>1 DEF IInv, OwnInv, Alive, CommandOf, CredOf, FilesOf, Exists, Arg, Target
  <2> QED
    BY <2>2, <2>3 DEF IInv
<1> QED
  BY <1>1, <1>2, <1>3, ExecvKept, LoginMainKept, SuMainKept, SetUidKept, SetGidKept, JoinKept,
     ShellMainKept, ExecuteCommandsKept, ExitKept, CatKept, CpKept, TestKept, ChmodKept, LsKept
  DEF Next

LEMMA Invariance == Spec => []IInv
BY InitInv, NextInv, PTL DEF Spec

-----------------------------------------------------------------------------
(* The theorems *)

\* Type correctness: a uid, gid, table, command or file is what the code takes it for,
\* whatever is typed at the shells (syscall.cc, table.cc, src/user).
THEOREM TypeCorrect == Spec => []TypeOK
<1>1. IInv => TypeOK
  BY DEF IInv
<1> QED
  BY <1>1, Invariance, PTL

\* Whatever path leads to it, a shell and what it starts run with the uid and the gid of
\* the account whose password was given (login.c, su.c, syscall.cc): setuid, setgid and
\* execv give root's only to login and su.
THEOREM ActsForItsUser == Spec => []OwnCredentials
<1>1. IInv => OwnCredentials
  <2> SUFFICES ASSUME IInv, NEW p \in Procs, at[p] \notin {"unborn", "dead"},
                      prog[p] \notin {"init", "login", "su"}
               PROVE  cred[p] = Ids[owner[p]]
    BY DEF OwnCredentials
  <2>1. Alive(p)
    BY DEF Alive
  <2> QED
    BY <2>1, Own DEF CredOf, MarkedPrograms
<1> QED
  BY <1>1, Invariance, PTL

\* As long as no table was full, at most one process reads the console: each process but
\* the first has a parent of its own that waits, so that one of the living does not.
THEOREM OneReaderAtATime == Spec => []OneReader
<1>1. IInv => OneReader
  <2> SUFFICES ASSUME IInv, ~full
               PROVE  Cardinality({p \in Procs : at[p] \in {"ask", "prompt"}}) <= 1
    BY DEF OneReader
  <2> DEFINE W == {p \in Procs : at[p] = "join"}
             R == {p \in Procs : at[p] \in {"ask", "prompt"}}
             Kids == {q \in Procs \ {1} : Alive(q)}
             parent == [q \in Kids |-> CHOOSE p \in Procs : Waits(p, q)]
  <2>1. IsFiniteSet(Procs)
    BY FS_Interval, SessionsAssumption DEF Procs
  <2>2. IsFiniteSet(W) /\ IsFiniteSet(R) /\ IsFiniteSet(Kids)
    BY <2>1, FS_Subset
  <2>3. parent \in Injection(Kids, W)
    <3>1. \A q \in Kids : parent[q] \in Procs /\ Waits(parent[q], q)
      BY DEF IInv, FamilyInv
    <3>2. \A q \in Kids : parent[q] \in W
      BY <3>1 DEF Waits
    <3>3. \A q, r \in Kids : parent[q] = parent[r] => q = r
      <4> SUFFICES ASSUME NEW q \in Kids, NEW r \in Kids, parent[q] = parent[r] PROVE q = r
        OBVIOUS
      <4>1. <<"process", q>> = <<"process", r>>
        BY <3>1 DEF Waits
      <4> QED
        BY <4>1
    <3>4. parent \in [Kids -> W]
      BY <3>2
    <3> HIDE DEF parent
    <3> QED
      BY <3>3, <3>4 DEF Injection, IsInjective
  <2>4. Cardinality(Kids) <= Cardinality(W)
    <3> HIDE DEF parent, Kids, W
    <3> QED
      BY <2>2, <2>3, FS_Injection
  <2>5. W \cup R \subseteq Kids \cup {1} /\ W \cap R = {}
    BY DEF Alive
  <2>6. /\ Cardinality(W \cup R) = Cardinality(W) + Cardinality(R)
        /\ Cardinality(W \cup R) <= Cardinality(Kids) + 1
    <3>1. W \cap R = {} /\ W \cup R \subseteq Kids \cup {1} /\ 1 \notin Kids
      BY <2>5
    <3> HIDE DEF W, R, Kids
    <3>2. Cardinality(W \cup R) = Cardinality(W) + Cardinality(R)
      <4>1. Cardinality(W \cup R) = Cardinality(W) + Cardinality(R) - Cardinality(W \cap R)
        BY <2>2, FS_Union
      <4>2. Cardinality(W \cap R) = 0
        BY <3>1, FS_EmptySet
      <4>3. Cardinality(W) \in Nat /\ Cardinality(R) \in Nat
        BY <2>2, FS_CardinalityType
      <4> QED
        BY <4>1, <4>2, <4>3
    <3>3. IsFiniteSet(Kids \cup {1}) /\ Cardinality(Kids \cup {1}) = Cardinality(Kids) + 1
      BY <2>2, <3>1, FS_AddElement
    <3>4. Cardinality(W \cup R) <= Cardinality(Kids \cup {1})
      BY <3>1, <3>3, FS_Subset
    <3> QED
      BY <3>2, <3>3, <3>4
  <2>7. Cardinality(W) \in Nat /\ Cardinality(R) \in Nat /\ Cardinality(Kids) \in Nat
    BY <2>2, FS_CardinalityType
  <2> HIDE DEF W, R, Kids
  <2>8. Cardinality(R) <= 1
    BY <2>4, <2>6, <2>7
  <2> QED
    BY <2>8 DEF R
<1> QED
  BY <1>1, Invariance, PTL

-----------------------------------------------------------------------------
(* The permissions hold for persons *)

\* Who is neither init, login nor su acts for its user.
LEMMA Acts ==
  ASSUME IInv, NEW p \in Procs, Alive(p), prog[p] \notin {"init", "login", "su"}
  PROVE  owner[p] \in Users /\ cred[p] = Ids[owner[p]] /\ FilesOf(p)
BY Own DEF CredOf, MarkedPrograms

\* What checkPermissions grants to a process its user is allowed.
LEMMA Checked ==
  ASSUME NEW p \in Procs, cred[p] = Ids[owner[p]],
         NEW f \in Names, meta[f] # Absent, NEW right, CheckPermissions(p, f, {right})
  PROVE  Access!Allowed(owner[p], f, right)
BY DEF CheckPermissions, Access!Allowed, Access!Owns, Access!Superuser

LEMMA Seen ==
  ASSUME NEW p \in Procs, NEW fs, Read(p, fs), \A f \in fs : Access!Allowed(owner[p], f, "r")
  PROVE  Access!Looks(owner[p])
BY DEF Read, Access!Looks

\* Reading, and doing nothing.
LEMMA ReadStep ==
  ASSUME NEW p \in Procs, owner[p] \in Users, Access!Looks(owner[p]), UNCHANGED <<meta, author>>
  PROVE  Access!AccessNext
BY DEF Access!AccessNext, Access!Reads

LEMMA PermittedReads ==
  ASSUME IInv, NEW p \in Procs, Alive(p), prog[p] \notin {"init", "login", "su"},
         NEW fs, Read(p, {f \in fs : CanRead(p, f)})
  PROVE  Access!Looks(owner[p])
<1>1. \A f \in fs : CanRead(p, f) => Access!Allowed(owner[p], f, "r")
  <2> SUFFICES ASSUME NEW f \in fs, CanRead(p, f) PROVE Access!Allowed(owner[p], f, "r")
    OBVIOUS
  <2>1. f \in Names /\ meta[f] # Absent /\ CheckPermissions(p, f, {"r"})
    BY DEF CanRead, Permitted
  <2> QED
    BY <2>1, Acts, Checked
<1> QED
  BY <1>1, Seen

\* open() with O_CREATE makes a file of the caller's, or changes nothing.
LEMMA CreateStep ==
  ASSUME IInv, NEW p \in Procs, Alive(p), prog[p] \notin {"init", "login", "su"},
         NEW f \in Names, NEW mask, NEW loc, OpenCreate(p, f, mask, loc), UNCHANGED <<author, readers>>
  PROVE  [Access!AccessNext]_<<meta, author, readers>>
<1>1. CASE meta[f] = Absent
  <2>1. f \in DOMAIN meta /\ owner[p] \in Users /\ cred[p] = Ids[owner[p]]
    BY Acts, Own, Types
  <2>2. meta' = [meta EXCEPT ![f] = NewFile(p)]
    BY <1>1 DEF OpenCreate
  <2>3. Access!Creates(owner[p], f)
    BY <1>1, <2>1, <2>2 DEF Access!Creates, NewFile
  <2> QED
    BY <2>1, <2>3 DEF Access!AccessNext
<1>2. CASE meta[f] # Absent
  BY <1>2 DEF OpenCreate
<1> QED
  BY <1>1, <1>2

\* write() changes the file that permits it.
LEMMA WriteStep ==
  ASSUME IInv, NEW p \in Procs, Alive(p), prog[p] \notin {"init", "login", "su"},
         NEW f, Exists(f), Write(p, f), Access!Looks(owner[p]), UNCHANGED meta
  PROVE  Access!AccessNext
<1>1. owner[p] \in Users /\ cred[p] = Ids[owner[p]] /\ f \in Names /\ meta[f] # Absent /\ f \in DOMAIN meta
  BY Acts, Own, Types DEF Exists
<1>2. CASE MayWrite(p, f)
  <2>1. Access!Allowed(owner[p], f, "w")
    BY <1>1, <1>2, Checked DEF MayWrite
  <2>2. Access!Writes(owner[p], f)
    BY <1>2, <2>1 DEF Write, Access!Writes
  <2> QED
    BY <1>1, <2>2 DEF Access!AccessNext
<1>3. CASE ~MayWrite(p, f)
  <2>1. UNCHANGED <<meta, author>>
    BY <1>3 DEF Write
  <2> QED
    BY <1>1, <2>1, ReadStep
<1> QED
  BY <1>2, <1>3

LEMMA CpStep ==
  ASSUME IInv, NEW p \in Procs, Cp(p)
  PROVE  [Access!AccessNext]_<<meta, author, readers>>
<1>1. Alive(p) /\ prog[p] = "cp" /\ Target(p) \in Names
  <2>1. Alive(p) /\ prog[p] = "cp"
    BY DEF Cp, Running, Alive
  <2> QED
    BY <2>1, ToolArgs
<1>2. CASE UNCHANGED files
  BY <1>2 DEF files
<1>3. CASE OpenCreate(p, Target(p), {"w"}, "use") /\ UNCHANGED <<author, readers>>
  <2>1. prog[p] \notin {"init", "login", "su"}
    BY <1>1
  <2> QED
    BY <1>1, <1>3, <2>1, CreateStep
<1>4. CASE /\ Running(p, "cp", "use")
           /\ IF MayRead(p, Arg(p)) THEN Read(p, {Arg(p)}) /\ Write(p, Target(p))
                                    ELSE UNCHANGED <<readers, author>>
           /\ UNCHANGED <<table, meta>>
  <2>1. prog[p] \notin {"init", "login", "su"} /\ Exists(Arg(p)) /\ Exists(Target(p)) /\ cred[p] = Ids[owner[p]]
    BY <1>1, <1>4, Acts DEF FilesOf, Running
  <2>2. CASE MayRead(p, Arg(p))
    <3>1. Access!Allowed(owner[p], Arg(p), "r")
      BY <2>1, <2>2, Checked DEF MayRead, Exists
    <3>2. Access!Looks(owner[p])
      <4>1. Read(p, {Arg(p)}) /\ \A f \in {Arg(p)} : Access!Allowed(owner[p], f, "r")
        BY <1>4, <2>2, <3>1
      <4> QED
        BY <4>1, Seen
    <3> QED
      BY <1>1, <1>4, <2>1, <2>2, <3>2, WriteStep
  <2>3. CASE ~MayRead(p, Arg(p))
    BY <1>4, <2>3
  <2> QED
    BY <2>2, <2>3
<1> QED
  BY <1>2, <1>3, <1>4 DEF Cp

LEMMA TestStep ==
  ASSUME IInv, NEW p \in Procs, Test(p)
  PROVE  [Access!AccessNext]_<<meta, author, readers>>
<1>1. Alive(p) /\ prog[p] = "test" /\ Target(p) \in Names /\ UNCHANGED readers
  <2>1. Alive(p) /\ prog[p] = "test" /\ UNCHANGED readers
    BY DEF Test, Running, Alive
  <2> QED
    BY <2>1, ToolArgs
<1>2. prog[p] \notin {"init", "login", "su"}
  BY <1>1
<1>3. CASE OpenCreate(p, Target(p), {"r", "w"}, "use") /\ UNCHANGED author
  <2>1. UNCHANGED <<author, readers>>
    BY <1>1, <1>3
  <2> QED
    BY <1>1, <1>2, <1>3, <2>1, CreateStep
<1>4. CASE Running(p, "test", "use") /\ Write(p, Target(p)) /\ UNCHANGED <<table, meta>>
  <2>1. Exists(Target(p))
    BY <1>1, <1>2, <1>4, Acts DEF FilesOf, Running
  <2>2. Access!Looks(owner[p])
    BY <1>1 DEF Access!Looks
  <2> QED
    BY <1>1, <1>2, <1>4, <2>1, <2>2, WriteStep
<1> QED
  BY <1>3, <1>4 DEF Test

LEMMA ChmodStep ==
  ASSUME IInv, NEW p \in Procs, Chmod(p)
  PROVE  [Access!AccessNext]_<<meta, author, readers>>
<1> DEFINE f == Target(p)
           b == Modes[Arg(p)]
<1>1. /\ Alive(p) /\ prog[p] = "chmod" /\ UNCHANGED <<author, readers>>
      /\ ChangeMode(p, f, Arg(p))
  BY DEF Chmod, Running, Alive
<1>2. f \in DOMAIN meta /\ b \in {Modes[m] : m \in DOMAIN Modes}
  BY <1>1, ToolArgs, Own, Types
<1>3. owner[p] \in Users /\ cred[p] = Ids[owner[p]]
  BY <1>1, Acts
<1>4. CASE meta[f] # Absent /\ cred[p].uid \in {0, meta[f].uid}
  <2>1. meta' = [meta EXCEPT ![f].bits = b]
    BY <1>1, <1>4 DEF ChangeMode
  <2>2. Access!Owns(owner[p], f) \/ Access!Superuser(owner[p])
    BY <1>3, <1>4 DEF Access!Owns, Access!Superuser
  <2>3. Access!Chmods(owner[p], f)
    BY <1>1, <1>2, <1>4, <2>1, <2>2 DEF Access!Chmods
  <2> QED
    BY <1>2, <1>3, <2>3 DEF Access!AccessNext
<1>5. CASE ~(meta[f] # Absent /\ cred[p].uid \in {0, meta[f].uid})
  BY <1>1, <1>5 DEF ChangeMode
<1> QED
  BY <1>4, <1>5

\* Every step that uses a file is allowed to the user who asked for it.
LEMMA AccessStep == ASSUME IInv, Next PROVE [Access!AccessNext]_<<meta, author, readers>>
<1>1. PICK p \in Procs :
        \/ Execv(p) \/ LoginMain(p) \/ SuMain(p) \/ ForkLogin(p) \/ SetUid(p) \/ SetGid(p) \/ Join(p)
        \/ ShellMain(p) \/ ExecuteCommands(p) \/ Exec(p) \/ Exit(p)
        \/ Cat(p) \/ Cp(p) \/ Test(p) \/ Chmod(p) \/ Ls(p)
  BY DEF Next
<1>2. CASE \/ Execv(p) \/ LoginMain(p) \/ SuMain(p) \/ ForkLogin(p) \/ SetUid(p) \/ SetGid(p)
           \/ Join(p) \/ ExecuteCommands(p) \/ Exec(p) \/ Exit(p)
  <2>1. UNCHANGED files
    BY <1>2 DEF Execv, LoginMain, SuMain, ForkLogin, SetUid, SetGid, Join, ExecuteCommands, Exec, Exit, Fork
  <2> QED
    BY <2>1 DEF files
<1>3. CASE ShellMain(p)
  <2>1. Alive(p) /\ prog[p] \notin {"init", "login", "su"} /\ UNCHANGED <<meta, author>>
    BY <1>3 DEF ShellMain, Alive
  <2>2. Access!Looks(owner[p])
    BY <1>3, <2>1, PermittedReads DEF ShellMain
  <2> QED
    BY <2>1, <2>2, Acts, ReadStep
<1>4. CASE Ls(p)
  <2>1. Alive(p) /\ prog[p] \notin {"init", "login", "su"} /\ UNCHANGED <<meta, author>>
    BY <1>4 DEF Ls, Running, Alive
  <2>2. Access!Looks(owner[p])
    BY <1>4, <2>1, PermittedReads DEF Ls
  <2> QED
    BY <2>1, <2>2, Acts, ReadStep
<1>5. CASE Cat(p)
  <2>1. Alive(p) /\ prog[p] \notin {"init", "login", "su"} /\ UNCHANGED <<meta, author>>
    BY <1>5 DEF Cat, Running, Alive
  <2>2. CASE UNCHANGED readers
    BY <2>1, <2>2
  <2>3. CASE Running(p, "cat", "use") /\ Read(p, {f \in {Arg(p)} : MayRead(p, f)})
    <3>1. Exists(Arg(p)) /\ cred[p] = Ids[owner[p]]
      BY <2>1, <2>3, Acts DEF FilesOf, Running
    <3>2. \A f \in {g \in {Arg(p)} : MayRead(p, g)} : Access!Allowed(owner[p], f, "r")
      BY <3>1, Checked DEF MayRead, Exists
    <3>3. Access!Looks(owner[p])
      BY <2>3, <3>2, Seen
    <3> QED
      BY <2>1, <3>3, Acts, ReadStep
  <2> QED
    BY <1>5, <2>2, <2>3 DEF Cat
<1> QED
  BY <1>1, <1>2, <1>3, <1>4, <1>5, CpStep, TestStep, ChmodStep

\* Every file is read, written, created and chmod-ed only for a user who has given a
\* password and whom the permissions of the file allow it, whatever the sessions do with
\* processes, uids and gids (fs.h:89, syscall.cc, login.c, su.c).
THEOREM AccessControlled == Spec => IsAccessControl
<1>1. Init => Access!AccessInit
  BY DEF Init, Access!AccessInit
<1>2. IInv /\ [Next]_vars => [Access!AccessNext]_<<meta, author, readers>>
  <2> SUFFICES ASSUME IInv, [Next]_vars PROVE [Access!AccessNext]_<<meta, author, readers>>
    OBVIOUS
  <2>1. CASE UNCHANGED vars
    BY <2>1 DEF vars
  <2> QED
    BY <2>1, AccessStep
<1> QED
  BY <1>1, <1>2, Invariance, PTL DEF Spec, IsAccessControl, Access!AccessSpec
=============================================================================
