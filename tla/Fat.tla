-------------------------------- MODULE Fat --------------------------------
(***************************************************************************)
(* The blocks of a Fat439 disk: the image that mkfs.c makes and what       *)
(* fs.cc does with it. Every file is a chain of blocks in fat[], which     *)
(* starts with a block that holds its metadata; the free blocks are one    *)
(* more chain. The kernel reads fat[] and the super block when it boots and *)
(* changes them in memory; data, metadata and the directory go to the disk. *)
(*                                                                         *)
(* Processes write, and create files in the only directory; they can be    *)
(* preempted between any two actions. Bytes are counted in units.          *)
(*                                                                         *)
(* An operator whose name ends in Mutant is a wrong version of the one that *)
(* follows it; no specification uses it (see README.md).                   *)
(***************************************************************************)
EXTENDS Integers, Sequences, FiniteSets, SequencesExt, FiniteSetsExt

CONSTANTS
  Procs,       \* processes
  Names,       \* names that files are created with
  None,        \* no process
  nBlocks,     \* blocks of the disk
  fatBlocks,   \* blocks that hold fat[]
  BlockSize,   \* units in a block
  MetaSize,    \* units of the metadata of a file
  EntrySize,   \* units of a directory entry
  Image,       \* the lengths of the files that mkfs puts on the disk
  MaxLength,   \* bound: no write at or beyond this offset
  Seeks,       \* where programs seek to: "end", "last block" or "anywhere"
  Restarts     \* when the machine is restarted: "never", "any time" or "before allocation"

ASSUME DiskAssumption ==
  /\ None \notin Procs \cup Names
  /\ nBlocks \in Nat /\ fatBlocks \in Nat /\ fatBlocks + 1 < nBlocks
  /\ MetaSize \in Nat /\ EntrySize \in Nat \ {0} /\ BlockSize \in Nat \ {0}
  /\ MetaSize + EntrySize * Len(Image) <= BlockSize   \* mkfs: one block for the root
  /\ Image \in Seq(Nat)
  /\ MaxLength \in Nat
  /\ Restarts \in {"never", "any time", "before allocation"}
  /\ Seeks \in {"end", "last block", "anywhere"}

VARIABLES
  fat,       \* Fat439::fat
  avail,     \* Fat439::super.avail
  length,    \* FileMetaData::length in the block a file starts with
  content,   \* the file that last wrote a block, named by its first block
  directory, \* the entries of the root directory
  dirMutex,  \* who holds Fat439Directory::mutex
  at,        \* where a process is
  job,       \* the write a process is in: file, offset, units still to write,
             \* block reached, steps to go, block to link; a new file's name and start
  diskFat,   \* fat[] on the disk
  diskAvail, \* super.avail on the disk
  panicked   \* Debug::panic was called: the machine stops

vars == <<fat, avail, length, content, directory, dirMutex, at, job, diskFat,
          diskAvail, panicked>>
fixed == <<diskFat, diskAvail>>

Blocks == 0 .. nBlocks - 1
DataBlocks == fatBlocks + 1 .. nBlocks - 1

\* blockInFile of the byte at an offset.
BlockInFile(offset) == (offset + MetaSize) \div BlockSize

-----------------------------------------------------------------------------
(* mkfs: getBlock() hands out blocks from the last one down, first to the  *)
(* root directory, then to the files of the image.                         *)

\* The blocks that getBlock() gave away before file i: the root and earlier files.
TakenBefore ==
  LET taken[i \in 1 .. Len(Image) + 1] ==
        IF i = 1 THEN 1 ELSE taken[i - 1] + BlockInFile(Image[i - 1]) + 1
  IN taken

Root == nBlocks - 1
ImageStart(i) == nBlocks - 1 - TakenBefore[i]
ImageLast(i) == ImageStart(i) - BlockInFile(Image[i])
ImageFiles == {ImageStart(i) : i \in DOMAIN Image}
FirstFree == nBlocks - 1 - TakenBefore[Len(Image) + 1]

MkfsFat ==
  [b \in Blocks |->
     IF b \notin DataBlocks \/ b \in {Root, fatBlocks + 1} \cup {ImageLast(i) : i \in DOMAIN Image}
       THEN 0 ELSE b - 1]

MkfsOwner(b) ==
  IF \E i \in DOMAIN Image : b \in ImageLast(i) .. ImageStart(i)
    THEN CHOOSE f \in ImageFiles : \E i \in DOMAIN Image :
           f = ImageStart(i) /\ b \in ImageLast(i) .. ImageStart(i)
    ELSE Root

Idle == [file |-> Root, offset |-> 0, togo |-> 0, block |-> 0, steps |-> 0, next |-> 0,
         name |-> None, start |-> 0]

ASSUME ImageAssumption == FirstFree >= fatBlocks + 1

Init ==
  /\ fat = MkfsFat /\ diskFat = MkfsFat
  /\ avail = FirstFree /\ diskAvail = FirstFree
  /\ length = [b \in Blocks |->
                 IF b = Root THEN EntrySize * Len(Image)
                 ELSE IF b \in ImageFiles
                   THEN Image[CHOOSE i \in DOMAIN Image : ImageStart(i) = b] ELSE 0]
  /\ content = [b \in Blocks |-> MkfsOwner(b)]
  /\ directory = [i \in DOMAIN Image |-> [name |-> None, start |-> ImageStart(i)]]
  /\ dirMutex = None
  /\ at = [p \in Procs |-> "run"]
  /\ job = [p \in Procs |-> Idle]
  /\ panicked = FALSE

-----------------------------------------------------------------------------
(* Chains                                                                  *)

\* The n-th block after b, 0 beyond the end of the chain.
After(b, table) ==
  LET nth[n \in 0 .. nBlocks] ==
        IF n = 0 THEN b ELSE IF nth[n - 1] = 0 THEN 0 ELSE table[nth[n - 1]]
  IN nth

Chain(b, table) == {After(b, table)[n] : n \in 0 .. nBlocks} \ {0}
Endless(b, table) == After(b, table)[nBlocks] # 0
EndOf(b, table) == CHOOSE c \in Chain(b, table) : table[c] = 0

Files == {Root} \cup {e.start : e \in ToSet(directory)}

-----------------------------------------------------------------------------
(* Writing                                                                 *)

Goto(p, loc) == at' = [at EXCEPT ![p] = loc]
Running(p, loc) == at[p] = loc /\ ~panicked

Writing(f, offset, togo, name, start) ==
  [file |-> f, offset |-> offset, togo |-> togo, block |-> f,
   steps |-> BlockInFile(offset), next |-> 0, name |-> name, start |-> start]

\* The offsets a program writes at, of those that OpenFile::write allows.
Offsets(f) ==
  LET end == length[f] IN
  CASE Seeks = "end" -> {end}
    [] Seeks = "last block" -> {o \in 0 .. end : BlockInFile(o) = BlockInFile(end)}
    [] Seeks = "anywhere" -> 0 .. end

\* The write system call begins to walk along the chain of the file.
Write(p, f, offset, n) ==
  /\ Running(p, "run")
  /\ offset < MaxLength
  /\ job' = [job EXCEPT ![p] = Writing(f, offset, n, None, 0)]
  /\ Goto(p, "walk")
  /\ UNCHANGED <<fat, avail, length, content, directory, dirMutex, fixed, panicked>>

Walk(p) ==
  /\ Running(p, "walk")
  /\ job[p].steps > 0
  /\ fat[job[p].block] # 0
  /\ job' = [job EXCEPT ![p].block = fat[@], ![p].steps = @ - 1]
  /\ UNCHANGED <<fat, avail, length, content, directory, dirMutex, at, fixed, panicked>>

\* The end of the chain: a free block is looked up ...
Take(p) ==
  /\ Running(p, "walk")
  /\ job[p].steps > 0
  /\ fat[job[p].block] = 0
  /\ IF avail = 0
       THEN panicked' = TRUE /\ UNCHANGED <<job, at>>
       ELSE /\ job' = [job EXCEPT ![p].next = avail]
            /\ Goto(p, "link")
            /\ UNCHANGED panicked
  /\ UNCHANGED <<fat, avail, length, content, directory, dirMutex, fixed>>

\* ... taken off the free chain and appended to that of the file.
LinkMutant(p) ==
  LET next == job[p].next IN
  /\ Running(p, "link")
  /\ avail' = fat[next]
  /\ fat' = [fat EXCEPT ![job[p].block] = next]
  /\ job' = [job EXCEPT ![p].block = next, ![p].steps = @ - 1, ![p].next = 0]
  /\ Goto(p, "walk")
  /\ UNCHANGED <<length, content, directory, dirMutex, fixed, panicked>>
Link(p) ==
  LET next == job[p].next IN
  /\ Running(p, "link")
  /\ avail' = fat[next]
  /\ fat' = [fat EXCEPT ![next] = 0, ![job[p].block] = next]
  /\ job' = [job EXCEPT ![p].block = next, ![p].steps = @ - 1, ![p].next = 0]
  /\ Goto(p, "walk")
  /\ UNCHANGED <<length, content, directory, dirMutex, fixed, panicked>>

\* dev->write: not more than what is left of the block.
WriteData(p) ==
  /\ Running(p, "walk")
  /\ job[p].steps = 0
  /\ content' = [content EXCEPT ![job[p].block] = job[p].file]
  /\ Goto(p, "meta")
  /\ UNCHANGED <<fat, avail, length, directory, dirMutex, job, fixed, panicked>>

WrittenMutant(p) == job[p].togo
WrittenMutant2(p) ==
  LET left == (job[p].offset + MetaSize) % BlockSize
  IN IF job[p].togo < left THEN job[p].togo ELSE left
Written(p) ==
  LET left == BlockSize - ((job[p].offset + MetaSize) % BlockSize)
  IN IF job[p].togo < left THEN job[p].togo ELSE left

\* A file that gets shorter gives the blocks behind this one back: they become
\* the head of the free chain, but this block goes on pointing at them.
Truncate(p) ==
  LET rest == fat[job[p].block] IN
  IF rest = 0 THEN UNCHANGED <<fat, avail>>
  ELSE avail' = rest /\ fat' = [fat EXCEPT ![EndOf(rest, fat)] = avail]

\* The length after this write is the end of what it wrote. A system call is done;
\* newFile goes on until the whole directory entry is written. The loop of a
\* truncation that follows an endless chain does not end.
WriteMeta(p) ==
  LET f == job[p].file
      newLength == job[p].offset + Written(p)
      togo == job[p].togo - Written(p)
      shrinks == newLength < length[f]
      creates == job[p].name # None
  IN
  /\ Running(p, "meta")
  /\ ~(shrinks /\ Endless(fat[job[p].block], fat))
  /\ IF shrinks THEN Truncate(p) ELSE UNCHANGED <<fat, avail>>
  /\ length' = [length EXCEPT ![f] = newLength]
  /\ IF creates /\ togo > 0
       THEN /\ job' = [job EXCEPT ![p] = Writing(f, newLength, togo, @.name, @.start)]
            /\ Goto(p, "walk")
       ELSE job' = [job EXCEPT ![p] = Idle] /\ Goto(p, "run")
  /\ IF creates /\ togo = 0
       THEN /\ directory' = Append(directory, [name |-> job[p].name, start |-> job[p].start])
            /\ dirMutex' = None
       ELSE UNCHANGED <<directory, dirMutex>>
  /\ UNCHANGED <<content, fixed, panicked>>

-----------------------------------------------------------------------------
(* Creating files                                                          *)

\* The open system call with O_CREATE does not find the name in the directory ...
Lookup(p, n) ==
  /\ Running(p, "run")
  /\ dirMutex = None
  /\ \A e \in ToSet(directory) : e.name # n
  /\ job' = [job EXCEPT ![p].name = n]
  /\ Goto(p, "create")
  /\ UNCHANGED <<fat, avail, length, content, directory, dirMutex, fixed, panicked>>

\* ... so newFile takes a free block ...
NewFileMutant(p) ==
  /\ Running(p, "create")
  /\ dirMutex = None
  /\ dirMutex' = p
  /\ job' = [job EXCEPT ![p].start = avail]
  /\ Goto(p, "pop")
  /\ UNCHANGED <<fat, avail, length, content, directory, fixed, panicked>>
NewFile(p) ==
  /\ Running(p, "create")
  /\ dirMutex = None
  /\ dirMutex' = p
  /\ IF avail = 0
       THEN panicked' = TRUE /\ UNCHANGED <<job, at>>
       ELSE /\ job' = [job EXCEPT ![p].start = avail]
            /\ Goto(p, "pop")
            /\ UNCHANGED panicked
  /\ UNCHANGED <<fat, avail, length, content, directory, fixed>>

\* ... writes metadata to it, and appends an entry to the directory.
NewPopMutant(p) ==
  LET start == job[p].start IN
  /\ Running(p, "pop")
  /\ fat' = [fat EXCEPT ![start] = 0]
  /\ length' = [length EXCEPT ![start] = 0]
  /\ content' = [content EXCEPT ![start] = start]
  /\ job' = [job EXCEPT ![p] = Writing(Root, length[Root], EntrySize, @.name, start)]
  /\ Goto(p, "walk")
  /\ UNCHANGED <<avail, directory, dirMutex, fixed, panicked>>
NewPop(p) ==
  LET start == job[p].start IN
  /\ Running(p, "pop")
  /\ avail' = fat[avail]
  /\ fat' = [fat EXCEPT ![start] = 0]
  /\ length' = [length EXCEPT ![start] = 0]
  /\ content' = [content EXCEPT ![start] = start]
  /\ job' = [job EXCEPT ![p] = Writing(Root, length[Root], EntrySize, @.name, start)]
  /\ Goto(p, "walk")
  /\ UNCHANGED <<directory, dirMutex, fixed, panicked>>

\* The machine stops and boots again: fat[] and avail come from the disk, to which
\* nothing has written them.
Restart ==
  /\ \/ Restarts = "any time"
     \/ Restarts = "before allocation" /\ fat = diskFat /\ avail = diskAvail
  /\ fat' = diskFat /\ avail' = diskAvail
  /\ dirMutex' = None
  /\ at' = [p \in Procs |-> "run"]
  /\ job' = [p \in Procs |-> Idle]
  /\ panicked' = FALSE
  /\ UNCHANGED <<length, content, directory, fixed>>

-----------------------------------------------------------------------------
Continue(p) ==
  Walk(p) \/ Take(p) \/ Link(p) \/ WriteData(p) \/ WriteMeta(p) \/ NewPop(p)

Next ==
  \/ \E p \in Procs :
       \/ \E f \in Files \ {Root} : \E o \in Offsets(f), n \in 0 .. BlockSize + 1 : Write(p, f, o, n)
       \/ \E n \in Names : Lookup(p, n)
       \/ NewFile(p)
       \/ Continue(p)
  \/ Restart

Spec == Init /\ [][Next]_vars

\* A ready process runs, and a mutex is handed over in turn (Process).
FairSpec ==
  Spec /\ \A p \in Procs : WF_vars(Continue(p)) /\ SF_vars(NewFile(p))

-----------------------------------------------------------------------------
(* Properties                                                              *)

TypeOK ==
  /\ fat \in [Blocks -> Blocks] /\ diskFat \in [Blocks -> Blocks]
  /\ avail \in Blocks /\ diskAvail \in Blocks
  /\ length \in [Blocks -> Nat]
  /\ content \in [Blocks -> Blocks]
  /\ directory \in Seq([name : Names \cup {None}, start : DataBlocks])
  /\ dirMutex \in Procs \cup {None}
  /\ at \in [Procs -> {"run", "walk", "link", "meta", "create", "pop"}]
  /\ job \in [Procs -> [file : DataBlocks, offset : Nat, togo : Nat, block : Blocks,
                        steps : Nat, next : Blocks, name : Names \cup {None}, start : Blocks]]
  /\ panicked \in BOOLEAN

\* The files in the directory, and those that newFile has yet to enter.
Owners ==
  Files \cup {job[p].start : p \in {q \in Procs : job[q].name # None /\ at[q] \in {"walk", "link", "meta"}}}

\* The allocator "keep[s the] integrity of the file system" (fs.cc): every data block
\* is in the chain of exactly one file or in the free chain, and every chain ends.
BlocksAccountedFor ==
  /\ ~Endless(avail, fat)
  /\ \A f \in Owners : ~Endless(f, fat) /\ Chain(f, fat) \cap Chain(avail, fat) = {}
  /\ \A f, g \in Owners : f = g \/ Chain(f, fat) \cap Chain(g, fat) = {}
  /\ DataBlocks = Chain(avail, fat) \cup UNION {Chain(f, fat) : f \in Owners}

\* The chain of a file is as long as its length says: a read walks from block to
\* block without a test and must not run off the end.
ReadsStayInChain ==
  \A f \in Files : length[f] > 0 => After(f, fat)[BlockInFile(length[f] - 1)] # 0

\* What a read of a file returns was written to that file, and its metadata too.
OwnData ==
  \A f \in Files :
    /\ content[f] = f
    /\ \A o \in 0 .. length[f] - 1 : content[After(f, fat)[BlockInFile(o)]] = f

\* Every write and every creation of a file ends, at the latest in a panic because
\* the disk is full.
CallsReturn == \A p \in Procs : at[p] # "run" ~> at[p] = "run" \/ panicked
=============================================================================
