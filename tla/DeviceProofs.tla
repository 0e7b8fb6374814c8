---------------------------- MODULE DeviceProofs ----------------------------
(***************************************************************************)
(* Theorems about the devices that processes poll, for any processes. Of   *)
(* the disk, for any sectors and requests: the IDE driver under its mutex, *)
(* and the loops of readFully and writeFully that cut a call into pieces,  *)
(* do with each part of a call that lies in one sector what Sectors        *)
(* promises, at once. Of the console, for any characters: each of them     *)
(* goes to one reader, gets() stays inside its buffer, and a program gets  *)
(* the words of the line, which strtok() and makeArgs() cut up in place.   *)
(***************************************************************************)
EXTENDS MCDevices, FiniteSetTheorems, WellFoundedInduction, TLAPS

\* A call that is not over, and lies on the disk.
CallOk(c) ==
  /\ c.op \in {"read", "write"} /\ c.offset \in Nat /\ c.togo \in Nat \ {0}
  /\ c.offset + c.togo <= nSectors * blockSize

\* What was read is behind what is left.
CallInv ==
  /\ call = [p \in Procs |-> call[p]]
  /\ \A p \in Procs :
       IF at[p] = "idle"
         THEN call[p] = NoCall
         ELSE CallOk(call[p]) /\ \A a \in DOMAIN call[p].got : a \in Int /\ a < call[p].offset

\* The queue of the mutex: who has asked, once, and the head is who works with the drive.
MutexInv ==
  /\ \A i, j \in DOMAIN mutex : mutex[i] = mutex[j] => i = j
  /\ \A p \in Procs :
       at[p] \in {"command", "transfer", "unlock"} <=> \E i \in DOMAIN mutex : mutex[i] = p
  /\ \A p \in Procs : at[p] \in {"transfer", "unlock"} => (mutex # <<>> /\ Head(mutex) = p)

DriveInv == \A p \in Procs : at[p] = "transfer" => drive.sector = Sector(call[p])

StepInv == \A p \in Procs : call[p].op = "read" => step[p] = "readBlock"

\* From the read to the write of a sector the buffer has what is on the disk, but for
\* the piece that is to be written.
Changed(p) == [b \in Bytes |-> IF b \in Touched(call[p]) THEN p ELSE disk[Sector(call[p])][b]]
DataInv ==
  \A p \in Procs : call[p].op = "write" =>
    /\ at[p] = "unlock" /\ step[p] = "readBlock" => data[p] = disk[Sector(call[p])]
    /\ at[p] \in {"lock", "command", "transfer"} /\ step[p] = "writeBlock" => data[p] = Changed(p)

\* The writers are kept apart until they are done.
ApartInv ==
  \A p, q \in Procs :
    (p # q /\ call[p].op = "write" /\ call[q].op = "write") => Sectors(call[p]) \cap Sectors(call[q]) = {}

IInv == TypeOK /\ CallInv /\ MutexInv /\ DriveInv /\ StepInv /\ DataInv /\ ApartInv

----------------------------------------------------------------------------
(* Addresses.                                                              *)

\* Quotient and remainder.
LEMMA DivMod ==
  ASSUME NEW B \in Nat \ {0}, NEW a \in Nat
  PROVE /\ a \div B \in Nat /\ a % B \in 0 .. B - 1
        /\ a = (a \div B) * B + (a % B)
<1>1. a \div B \in Int /\ a \div B >= 0
  OBVIOUS
<1>2. a % B \in 0 .. B - 1
  OBVIOUS
<1>3. a = (a \div B) * B + (a % B)
  BY Z3
<1> QED
  BY <1>1, <1>2, <1>3

LEMMA DivUnique ==
  ASSUME NEW B \in Nat \ {0}, NEW s \in Nat, NEW b \in 0 .. B - 1
  PROVE (s * B + b) \div B = s /\ (s * B + b) % B = b
OBVIOUS

LEMMA LaterSector ==
  ASSUME NEW B \in Nat \ {0}, NEW s \in Nat, NEW t \in Nat, s < t
  PROVE s * B + B <= t * B
OBVIOUS

\* The lesser of two numbers (SequencesExt).
LEMMA MinOfTwo ==
  ASSUME NEW i \in Nat, NEW j \in Nat
  PROVE Min({i, j}) = IF i <= j THEN i ELSE j
BY DEF Min

\* The addresses of the disk, and what is there.
Addresses == 0 .. nSectors * blockSize - 1
Content(d) == [a \in Addresses |-> d[a \div blockSize][a % blockSize]]

\* An address is a byte of a sector of the disk.
LEMMA AddressIs ==
  /\ \A a \in Addresses :
       /\ a \in Nat /\ a \div blockSize \in 0 .. nSectors - 1 /\ a % blockSize \in Bytes
       /\ a = (a \div blockSize) * blockSize + (a % blockSize)
  /\ \A s \in 0 .. nSectors - 1, b \in Bytes :
       /\ s * blockSize + b \in Addresses
       /\ (s * blockSize + b) \div blockSize = s /\ (s * blockSize + b) % blockSize = b
<1> DEFINE B == blockSize
           N == nSectors
<1>0. B \in Nat \ {0} /\ N \in Nat \ {0} /\ N * B \in Nat /\ Bytes = 0 .. B - 1 /\ Addresses = 0 .. N * B - 1
  BY DiskAssumption DEF Bytes, Addresses
<1> HIDE DEF B, N
<1>1. ASSUME NEW a \in Addresses
      PROVE a \in Nat /\ a \div B \in 0 .. N - 1 /\ a % B \in Bytes /\ a = (a \div B) * B + (a % B)
  <2>1. a \in Nat /\ a < N * B
    BY <1>0
  <2>2. a \div B \in Nat /\ a % B \in 0 .. B - 1 /\ a = (a \div B) * B + (a % B)
    BY <1>0, <2>1, DivMod
  <2>3. a \div B < N
    <3> DEFINE q == a \div B
    <3> SUFFICES ASSUME ~(q < N) PROVE FALSE
      OBVIOUS
    <3>1. q \in Nat /\ N <= q /\ q * B <= a
      BY <1>0, <2>1, <2>2
    <3> HIDE DEF q
    <3>2. N * B <= q * B
      BY <1>0, <3>1
    <3> QED
      BY <1>0, <2>1, <3>1, <3>2
  <2> QED
    BY <1>0, <2>1, <2>2, <2>3
<1>2. ASSUME NEW s \in 0 .. N - 1, NEW b \in Bytes
      PROVE s * B + b \in Addresses /\ (s * B + b) \div B = s /\ (s * B + b) % B = b
  <2>1. s \in Nat /\ b \in 0 .. B - 1 /\ s < N
    BY <1>0
  <2>2. s * B + B <= N * B /\ s * B \in Nat
    BY <1>0, <2>1, LaterSector
  <2>3. s * B + b \in Addresses
    BY <1>0, <2>1, <2>2
  <2> QED
    BY <1>0, <2>1, <2>3, DivUnique
<1> QED
  BY <1>1, <1>2 DEF B, N

\* The piece that a call does next lies in its sector.
LEMMA PieceIs ==
  ASSUME NEW c, CallOk(c)
  PROVE /\ Sector(c) \in 0 .. nSectors - 1
        /\ DataOffset(c) \in Bytes /\ c.offset = Sector(c) * blockSize + DataOffset(c)
        /\ Piece(c) \in 1 .. c.togo /\ DataOffset(c) + Piece(c) <= blockSize
        /\ (Piece(c) = c.togo \/ DataOffset(c) + Piece(c) = blockSize)
        /\ Touched(c) \subseteq Bytes
<1> DEFINE B == blockSize
           N == nSectors
<1>0. B \in Nat \ {0} /\ N \in Nat \ {0} /\ N * B \in Nat /\ Bytes = 0 .. B - 1 /\ Addresses = 0 .. N * B - 1
  BY DiskAssumption DEF Bytes, Addresses
<1>1. c.offset \in Addresses /\ c.togo \in Nat /\ c.togo # 0 /\ c.offset \in Nat
  BY <1>0 DEF CallOk
<1>2. Sector(c) \in 0 .. N - 1 /\ c.offset = Sector(c) * B + (c.offset % B) /\ c.offset % B \in 0 .. B - 1
  BY <1>0, <1>1, AddressIs DEF Sector
<1>3. DataOffset(c) = c.offset % B
  <2> HIDE DEF B
  <2>1. Sector(c) * B \in Int /\ c.offset % B \in Int
    BY <1>0, <1>2
  <2>2. DataOffset(c) = c.offset - Sector(c) * B
    BY DEF DataOffset, B
  <2> QED
    BY <1>1, <1>2, <2>1, <2>2
<1>4. Piece(c) = IF c.togo <= B - DataOffset(c) THEN c.togo ELSE B - DataOffset(c)
  <2>1. B - DataOffset(c) \in Nat
    BY <1>0, <1>2, <1>3
  <2> QED
    BY <1>1, <2>1, MinOfTwo DEF Piece
<1>5. Piece(c) \in 1 .. c.togo /\ DataOffset(c) + Piece(c) <= B /\ (Piece(c) = c.togo \/ DataOffset(c) + Piece(c) = B)
  BY SMTT(30), <1>0, <1>1, <1>2, <1>3, <1>4
<1>6. Touched(c) \subseteq Bytes
  <2> DEFINE o == DataOffset(c)
             n == Piece(c)
  <2>1. o \in Nat /\ n \in Nat /\ o + n <= B /\ Touched(c) = o .. o + n - 1
    BY <1>0, <1>1, <1>2, <1>3, <1>5 DEF Touched
  <2> HIDE DEF o, n, B
  <2> QED
    BY <1>0, <2>1
<1> QED
  BY <1>0, <1>2, <1>3, <1>5, <1>6

\* The addresses of a piece.
Reached(c) == c.offset .. c.offset + Piece(c) - 1

LEMMA ReachedIs ==
  ASSUME NEW c, CallOk(c)
  PROVE /\ Reached(c) \subseteq Addresses
        /\ \A a \in Reached(c) :
             /\ a \div blockSize = Sector(c) /\ a % blockSize = a - Sector(c) * blockSize
             /\ a - Sector(c) * blockSize \in Touched(c)
        /\ Reached(c) = {Sector(c) * blockSize + b : b \in Touched(c)}
        /\ \A a \in Addresses : a \in Reached(c) <=> (a \div blockSize = Sector(c) /\ a % blockSize \in Touched(c))
<1> DEFINE B == blockSize
           s == Sector(c)
           o == DataOffset(c)
           n == Piece(c)
<1>0. B \in Nat \ {0} /\ Bytes = 0 .. B - 1
  BY DiskAssumption DEF Bytes
<1>1. /\ s \in 0 .. nSectors - 1 /\ o \in Bytes /\ c.offset = s * B + o /\ n \in 1 .. c.togo /\ o + n <= B
      /\ c.togo \in Nat
  BY PieceIs DEF CallOk
<1>2. s \in Nat /\ o \in Nat /\ n \in Nat /\ s * B \in Nat
  BY <1>0, <1>1, DiskAssumption
<1>3. Touched(c) = o .. o + n - 1 /\ Reached(c) = c.offset .. c.offset + n - 1
  BY DEF Touched, Reached
<1>4. \A b \in Bytes : /\ s * B + b \in Addresses /\ (s * B + b) \div B = s /\ (s * B + b) % B = b
  BY <1>1, AddressIs
<1>5. \A a \in Addresses : a \in Nat /\ a % B \in Bytes /\ a = (a \div B) * B + (a % B)
  BY AddressIs
<1> HIDE DEF B, s, o, n
<1>6. ASSUME NEW a \in Reached(c)
      PROVE a \in Addresses /\ a \div B = s /\ a % B = a - s * B /\ a - s * B \in Touched(c)
  <2> DEFINE b == a - s * B
  <2>1. b \in Touched(c) /\ b \in Bytes /\ a = s * B + b
    BY <1>0, <1>1, <1>2, <1>3
  <2> HIDE DEF b
  <2>2. a \in Addresses /\ a \div B = s /\ a % B = b
    BY <1>4, <2>1
  <2> QED
    BY <2>1, <2>2 DEF b
<1>7. ASSUME NEW b \in Touched(c) PROVE s * B + b \in Reached(c)
  BY <1>0, <1>1, <1>2, <1>3
<1>8. ASSUME NEW a \in Addresses, a \div B = s, a % B \in Touched(c) PROVE a \in Reached(c)
  BY <1>5, <1>7, <1>8
<1>9. Reached(c) = {s * B + b : b \in Touched(c)}
  <2>1. ASSUME NEW a \in Reached(c) PROVE \E b \in Touched(c) : a = s * B + b
    <3>1. a - s * B \in Touched(c) /\ a = s * B + (a - s * B)
      BY <1>1, <1>2, <1>3, <1>6
    <3> QED
      BY <3>1
  <2> QED
    BY <1>7, <2>1
<1>10. \A a \in Reached(c) : a % B \in Touched(c)
  BY <1>6
<1> QED
  BY <1>6, <1>8, <1>9, <1>10 DEF B, s

\* ... are the part of the call that Sectors does at once.
LEMMA PartIs ==
  ASSUME NEW c, CallOk(c)
  PROVE Store!Part(c) = Reached(c)
<1> DEFINE B == blockSize
           s == Sector(c)
           o == DataOffset(c)
           n == Piece(c)
<1>0. B \in Nat \ {0} /\ Bytes = 0 .. B - 1
  BY DiskAssumption DEF Bytes
<1>1. /\ s \in 0 .. nSectors - 1 /\ o \in Bytes /\ c.offset = s * B + o /\ n \in 1 .. c.togo /\ o + n <= B
      /\ c.togo \in Nat /\ c.offset \in Nat /\ (n = c.togo \/ o + n = B)
  BY PieceIs DEF CallOk
<1>2. s \in Nat /\ o \in Nat /\ n \in Nat /\ s * B \in Nat
  BY <1>0, <1>1, DiskAssumption
<1>3. Store!Part(c) = {a \in Addresses : a \in c.offset .. c.offset + c.togo - 1 /\ a \div B = c.offset \div B}
  BY DEF Store!Part, Store!Address, Addresses
<1>4. c.offset \div B = s
  BY DEF Sector
<1>5. ASSUME NEW a \in Addresses, a \in c.offset .. c.offset + c.togo - 1, a \div B = s
      PROVE a \in Reached(c)
  <2>1. a \in Nat /\ a % B \in Bytes /\ a = s * B + (a % B)
    BY <1>5, AddressIs
  <2> DEFINE b == a % B
  <2> HIDE DEF B, s, o, n, b
  <2>2. a < s * B + B /\ c.offset <= a /\ a < c.offset + c.togo
    BY SMTT(30), <1>0, <1>1, <1>2, <1>5, <2>1 DEF b
  <2>3. a < c.offset + n
    BY <1>0, <1>1, <1>2, <2>1, <2>2
  <2> QED
    BY <1>1, <1>2, <2>1, <2>2, <2>3 DEF Reached, n
<1>6. ASSUME NEW a \in Reached(c)
      PROVE a \in Addresses /\ a \in c.offset .. c.offset + c.togo - 1 /\ a \div B = s
  <2>1. a \in Addresses /\ a \div B = s
    BY ReachedIs
  <2>2. a \in c.offset .. c.offset + n - 1
    BY DEF Reached
  <2> HIDE DEF B, s, o, n
  <2> QED
    BY <1>1, <1>2, <2>1, <2>2
<1> QED
  BY <1>3, <1>4, <1>5, <1>6

LEMMA AfterIs ==
  ASSUME NEW c, CallOk(c), NEW got
  PROVE Store!After(c, got) = [op |-> c.op, offset |-> c.offset + Piece(c), togo |-> c.togo - Piece(c), got |-> got]
<1> DEFINE last == c.offset + Piece(c) - 1
<1>1. Piece(c) \in Nat \ {0} /\ c.offset \in Nat /\ c.togo \in Nat
  BY PieceIs DEF CallOk
<1>2. last \in Nat /\ Store!Part(c) = c.offset .. last /\ last - c.offset + 1 = Piece(c)
  BY <1>1, PartIs DEF Reached
<1>3. (CHOOSE a \in Store!Part(c) : \A b \in Store!Part(c) : b <= a) = last
  <2> HIDE DEF last
  <2>1. last \in Store!Part(c) /\ \A b \in Store!Part(c) : b \in Int /\ b <= last
    BY <1>1, <1>2
  <2>2. \A a \in Store!Part(c) : (\A b \in Store!Part(c) : b <= a) => a = last
    BY <1>2, <2>1
  <2> QED
    BY <2>1, <2>2
<1> QED
  BY <1>2, <1>3 DEF Store!After

\* The sector that a call is at is one of its sectors, and the rest has no others.
LEMMA SectorsOf ==
  ASSUME NEW c, CallOk(c)
  PROVE Sector(c) \in Sectors(c)
<1>1. Sector(c) \in 0 .. nSectors - 1
  BY PieceIs
<1>2. c.offset \in c.offset .. c.offset + c.togo - 1
  BY DEF CallOk
<1> QED
  BY <1>1, <1>2 DEF Sectors, Sector

LEMMA RestIs ==
  ASSUME NEW c, CallOk(c), NEW d
  PROVE /\ Rest(c, d).op = c.op /\ Rest(c, d).offset = c.offset + Piece(c)
        /\ Rest(c, d).togo = c.togo - Piece(c)
        /\ Rest(c, d).got = IF c.op = "read" THEN Got(c, d) ELSE c.got
        /\ c.togo - Piece(c) \in Nat /\ Piece(c) \in Nat \ {0}
        /\ Sectors(Rest(c, d)) \subseteq Sectors(c)
        /\ c.togo # Piece(c) => CallOk(Rest(c, d))
<1>1. Piece(c) \in 1 .. c.togo /\ c.togo \in Nat /\ c.offset \in Nat /\ c.offset + c.togo <= nSectors * blockSize
      /\ nSectors * blockSize \in Nat
  BY PieceIs, DiskAssumption DEF CallOk
<1> DEFINE r == Rest(c, d)
<1>2. r.op = c.op /\ r.offset = c.offset + Piece(c) /\ r.togo = c.togo - Piece(c)
      /\ r.got = IF c.op = "read" THEN Got(c, d) ELSE c.got
  BY DEF Rest
<1> HIDE DEF r
<1>3. r.offset .. r.offset + r.togo - 1 \subseteq c.offset .. c.offset + c.togo - 1
  BY <1>1, <1>2
<1>4. Sectors(r) \subseteq Sectors(c)
  BY <1>3 DEF Sectors
<1>5. c.togo # Piece(c) => CallOk(r)
  BY <1>1, <1>2 DEF CallOk
<1> QED
  BY <1>1, <1>2, <1>4, <1>5 DEF r

----------------------------------------------------------------------------
(* The inductive invariant.                                                *)

LEMMA Start == Init => IInv
<1> SUFFICES ASSUME Init PROVE IInv
  OBVIOUS
<1>1. Blank \in [Bytes -> Procs \cup {Nobody}] /\ 0 \in 0 .. nSectors - 1
  BY DiskAssumption DEF Blank
<1>2. TypeOK
  BY <1>1 DEF Init, TypeOK, NoCall
<1>3. CallInv
  BY DEF Init, CallInv
<1>4. MutexInv
  BY DEF Init, MutexInv
<1>5. DriveInv /\ StepInv /\ DataInv /\ ApartInv
  BY DEF Init, DriveInv, StepInv, DataInv, ApartInv, NoCall
<1> QED
  BY <1>2, <1>3, <1>4, <1>5 DEF IInv

\* Only one process works with the drive.
LEMMA Alone ==
  ASSUME MutexInv, NEW p \in Procs, NEW q \in Procs,
         at[p] \in {"transfer", "unlock"}, at[q] \in {"transfer", "unlock"}
  PROVE p = q
BY DEF MutexInv

LEMMA Went ==
  ASSUME TypeOK, NEW p \in Procs, NEW loc \in {"idle", "lock", "command", "transfer", "unlock"}, Goto(p, loc)
  PROVE /\ at' \in [Procs -> {"idle", "lock", "command", "transfer", "unlock"}]
        /\ at'[p] = loc /\ \A q \in Procs \ {p} : at'[q] = at[q]
BY DEF TypeOK, Goto

LEMMA StepDone ==
  ASSUME IInv, Done
  PROVE IInv'
<1>1. UNCHANGED <<disk, mutex, at, step, call, data>> /\ drive' = [drive EXCEPT !.busy = FALSE]
  BY DEF Done
<1>2. drive' \in [busy : BOOLEAN, sector : 0 .. nSectors - 1] /\ drive'.sector = drive.sector
  BY <1>1 DEF IInv, TypeOK
<1>3. TypeOK'
  BY <1>1, <1>2 DEF IInv, TypeOK
<1>4. CallInv' /\ MutexInv' /\ StepInv' /\ ApartInv'
  BY <1>1 DEF IInv, CallInv, MutexInv, StepInv, ApartInv
<1>5. DriveInv'
  BY <1>1, <1>2 DEF IInv, DriveInv
<1>6. DataInv'
  BY <1>1 DEF IInv, DataInv, Changed
<1> QED
  BY <1>3, <1>4, <1>5, <1>6 DEF IInv

LEMMA StepBegin ==
  ASSUME IInv, NEW p \in Procs, NEW r \in Requests, Begin(p, r)
  PROVE IInv'
<1> DEFINE c == [op |-> r.op, offset |-> r.offset, togo |-> r.n, got |-> <<>>]
<1>1. /\ TypeOK /\ CallInv /\ MutexInv
      /\ at[p] = "idle" /\ Goto(p, "lock") /\ call' = [call EXCEPT ![p] = c]
      /\ UNCHANGED <<disk, drive, mutex, step, data>>
  BY DEF Begin, IInv
<1>2. c.op = "write" => \A q \in Procs, s \in Sectors(c) : ~Busy(q, s)
  BY DEF Begin
<1>3. CallOk(c) /\ DOMAIN c.got = {}
  BY DiskAssumption DEF CallOk
<1>4. /\ at' \in [Procs -> {"idle", "lock", "command", "transfer", "unlock"}]
      /\ at'[p] = "lock" /\ \A q \in Procs \ {p} : at'[q] = at[q]
  BY <1>1, Went
<1>5. /\ call' = [q \in Procs |-> call'[q]] /\ call'[p] = c
      /\ \A q \in Procs \ {p} : call'[q] = call[q]
  BY <1>1 DEF CallInv
<1> HIDE DEF c
<1>6. CallInv'
  BY <1>1, <1>3, <1>4, <1>5 DEF CallInv
<1>7. TypeOK'
  BY <1>1, <1>3, <1>4, <1>5 DEF TypeOK, CallOk
<1>8. MutexInv'
  BY <1>1, <1>4 DEF MutexInv
<1>9. DriveInv'
  BY <1>1, <1>4, <1>5 DEF IInv, DriveInv
<1>10. step[p] = "readBlock"
  BY <1>1 DEF IInv, StepInv, CallInv, NoCall
<1>11. StepInv'
  BY <1>1, <1>5, <1>10 DEF IInv, StepInv
<1>12. DataInv'
  <2> SUFFICES ASSUME NEW q \in Procs, call'[q].op = "write"
               PROVE /\ at'[q] = "unlock" /\ step'[q] = "readBlock" => data'[q] = disk'[Sector(call'[q])]
                     /\ at'[q] \in {"lock", "command", "transfer"} /\ step'[q] = "writeBlock" => data'[q] = Changed(q)'
    BY DEF DataInv
  <2>1. CASE q = p
    BY <1>1, <1>4, <1>10, <2>1
  <2>2. CASE q # p
    BY <1>1, <1>4, <1>5, <2>2 DEF IInv, DataInv, Changed
  <2> QED
    BY <2>1, <2>2
<1>13. ApartInv'
  <2> SUFFICES ASSUME NEW q \in Procs, NEW o \in Procs, q # o, call'[q].op = "write", call'[o].op = "write"
               PROVE Sectors(call'[q]) \cap Sectors(call'[o]) = {}
    BY DEF ApartInv
  <2>1. CASE q # p /\ o # p
    BY <1>5, <2>1 DEF IInv, ApartInv
  <2>2. ASSUME NEW x \in Procs \ {p}, call'[x].op = "write", c.op = "write" PROVE Sectors(c) \cap Sectors(call'[x]) = {}
    BY <1>2, <1>5, <2>2 DEF Busy
  <2> QED
    BY <1>5, <2>1, <2>2
<1> QED
  BY <1>6, <1>7, <1>8, <1>9, <1>11, <1>12, <1>13 DEF IInv

LEMMA StepLock ==
  ASSUME IInv, NEW p \in Procs, Lock(p)
  PROVE IInv'
<1>1. /\ TypeOK /\ CallInv /\ MutexInv
      /\ at[p] = "lock" /\ Goto(p, "command") /\ mutex' = Append(mutex, p)
      /\ UNCHANGED <<disk, drive, step, call, data>>
  BY DEF Lock, IInv
<1>2. /\ at' \in [Procs -> {"idle", "lock", "command", "transfer", "unlock"}]
      /\ at'[p] = "command" /\ \A q \in Procs \ {p} : at'[q] = at[q]
  BY <1>1, Went
<1>3. /\ mutex' \in Seq(Procs) /\ DOMAIN mutex = 1 .. Len(mutex) /\ Len(mutex) \in Nat
      /\ DOMAIN mutex' = 1 .. Len(mutex) + 1 /\ mutex'[Len(mutex) + 1] = p
      /\ \A i \in DOMAIN mutex : mutex'[i] = mutex[i]
      /\ mutex # <<>> => Head(mutex') = Head(mutex)
      /\ mutex' # <<>>
  BY <1>1 DEF TypeOK
<1>4. ~\E i \in DOMAIN mutex : mutex[i] = p
  BY <1>1 DEF MutexInv
<1>5. MutexInv'
  <2>1. ASSUME NEW i \in DOMAIN mutex', NEW j \in DOMAIN mutex', mutex'[i] = mutex'[j] PROVE i = j
    <3>1. (i \in DOMAIN mutex \/ i = Len(mutex) + 1) /\ (j \in DOMAIN mutex \/ j = Len(mutex) + 1)
      BY <1>3
    <3> QED
      BY <1>1, <1>3, <1>4, <2>1, <3>1 DEF MutexInv
  <2>2. ASSUME NEW q \in Procs
        PROVE at'[q] \in {"command", "transfer", "unlock"} <=> \E i \in DOMAIN mutex' : mutex'[i] = q
    <3>1. CASE q = p
      BY <1>2, <1>3, <3>1
    <3>2. CASE q # p
      <4>1. (\E i \in DOMAIN mutex' : mutex'[i] = q) <=> (\E i \in DOMAIN mutex : mutex[i] = q)
        BY <1>3, <3>2
      <4> QED
        BY <1>1, <1>2, <3>2, <4>1 DEF MutexInv
    <3> QED
      BY <3>1, <3>2
  <2>3. ASSUME NEW q \in Procs, at'[q] \in {"transfer", "unlock"} PROVE mutex' # <<>> /\ Head(mutex') = q
    <3>1. q # p /\ at[q] \in {"transfer", "unlock"}
      BY <1>2, <2>3
    <3> QED
      BY <1>1, <1>3, <3>1 DEF MutexInv
  <2> QED
    BY <2>1, <2>2, <2>3 DEF MutexInv
<1>6. TypeOK'
  BY <1>1, <1>2, <1>3 DEF TypeOK
<1>7. CallInv' /\ DriveInv' /\ StepInv' /\ ApartInv'
  BY <1>1, <1>2 DEF IInv, CallInv, DriveInv, StepInv, ApartInv
<1>8. DataInv'
  BY <1>1, <1>2 DEF IInv, DataInv, Changed
<1> QED
  BY <1>5, <1>6, <1>7, <1>8 DEF IInv

LEMMA StepCommand ==
  ASSUME IInv, NEW p \in Procs, Command(p)
  PROVE IInv'
<1>1. /\ TypeOK /\ CallInv /\ MutexInv
      /\ at[p] = "command" /\ Head(mutex) = p /\ Goto(p, "transfer")
      /\ drive' = [busy |-> TRUE, sector |-> Sector(call[p])]
      /\ UNCHANGED <<disk, mutex, step, call, data>>
  BY DEF Command, Holds, IInv
<1>2. /\ at' \in [Procs -> {"idle", "lock", "command", "transfer", "unlock"}]
      /\ at'[p] = "transfer" /\ \A q \in Procs \ {p} : at'[q] = at[q]
  BY <1>1, Went
<1>3. mutex # <<>>
  <2>1. \E i \in DOMAIN mutex : mutex[i] = p
    BY <1>1 DEF MutexInv
  <2> QED
    BY <2>1
<1>4. MutexInv'
  BY <1>1, <1>2, <1>3 DEF MutexInv
<1>5. \A q \in Procs \ {p} : at[q] \notin {"transfer", "unlock"}
  BY <1>1 DEF MutexInv
<1>6. DriveInv'
  BY <1>1, <1>2, <1>5 DEF DriveInv
<1>7. CallOk(call[p])
  BY <1>1 DEF CallInv
<1>8. drive' \in [busy : BOOLEAN, sector : 0 .. nSectors - 1]
  BY <1>1, <1>7, PieceIs
<1>9. TypeOK'
  BY <1>1, <1>2, <1>8 DEF TypeOK
<1>10. CallInv' /\ StepInv' /\ ApartInv'
  BY <1>1, <1>2 DEF IInv, CallInv, StepInv, ApartInv
<1>11. DataInv'
  BY <1>1, <1>2 DEF IInv, DataInv, Changed
<1> QED
  BY <1>4, <1>6, <1>9, <1>10, <1>11 DEF IInv

\* What a transfer does to the buffer and to the disk.
LEMMA Transferred ==
  ASSUME IInv, NEW p \in Procs, Transfer(p)
  PROVE /\ CallOk(call[p]) /\ drive.sector = Sector(call[p])
        /\ step[p] = "readBlock" => data' = [data EXCEPT ![p] = disk[Sector(call[p])]] /\ disk' = disk
        /\ step[p] # "readBlock" =>
             /\ call[p].op = "write" /\ data[p] = Changed(p)
             /\ disk' = [disk EXCEPT ![Sector(call[p])] = data[p]] /\ data' = data
        /\ disk' \in [0 .. nSectors - 1 -> [Bytes -> Procs \cup {Nobody}]]
        /\ data' \in [Procs -> [Bytes -> Procs \cup {Nobody}]]
        /\ drive' \in [busy : BOOLEAN, sector : 0 .. nSectors - 1]
        /\ \A q \in Procs \ {p} : data'[q] = data[q]
<1>1. at[p] = "transfer" /\ TypeOK
  BY DEF Transfer, IInv
<1>2. CallOk(call[p]) /\ drive.sector = Sector(call[p])
  BY <1>1 DEF IInv, CallInv, DriveInv
<1>3. CASE step[p] = "readBlock"
  <2>1. data' = [data EXCEPT ![p] = disk[Sector(call[p])]] /\ disk' = disk /\ drive' = drive
    BY <1>2, <1>3 DEF Transfer
  <2>2. disk[Sector(call[p])] \in [Bytes -> Procs \cup {Nobody}]
    BY <1>1, <1>2, PieceIs DEF TypeOK
  <2> QED
    BY <1>1, <1>2, <1>3, <2>1, <2>2 DEF TypeOK
<1>4. CASE step[p] # "readBlock"
  <2>1. disk' = [disk EXCEPT ![Sector(call[p])] = data[p]] /\ data' = data /\ drive' = [drive EXCEPT !.busy = TRUE]
    BY <1>2, <1>4 DEF Transfer
  <2>2. call[p].op = "write" /\ step[p] = "writeBlock"
    BY <1>1, <1>2, <1>4 DEF IInv, StepInv, CallOk, TypeOK
  <2>3. data[p] = Changed(p)
    BY <1>1, <2>2 DEF IInv, DataInv
  <2> QED
    BY <1>1, <1>2, <1>4, <2>1, <2>2, <2>3 DEF TypeOK
<1> QED
  BY <1>3, <1>4

LEMMA StepTransfer ==
  ASSUME IInv, NEW p \in Procs, Transfer(p)
  PROVE IInv'
<1>1. /\ TypeOK /\ CallInv /\ MutexInv
      /\ at[p] = "transfer" /\ Goto(p, "unlock") /\ mutex' = mutex /\ step' = step /\ call' = call
  BY DEF Transfer, IInv
<1>2. /\ at' \in [Procs -> {"idle", "lock", "command", "transfer", "unlock"}]
      /\ at'[p] = "unlock" /\ \A q \in Procs \ {p} : at'[q] = at[q]
  BY <1>1, Went
<1>3. TypeOK'
  BY <1>1, <1>2, Transferred DEF TypeOK
<1>4. CallInv' /\ StepInv' /\ ApartInv'
  BY <1>1, <1>2 DEF IInv, CallInv, StepInv, ApartInv
<1>5. MutexInv'
  BY <1>1, <1>2 DEF MutexInv
<1>6. DriveInv'
  <2>1. \A q \in Procs : at'[q] # "transfer"
    BY <1>1, <1>2, Alone
  <2> QED
    BY <2>1 DEF DriveInv
<1>7. DataInv'
  <2> SUFFICES ASSUME NEW q \in Procs, call[q].op = "write"
               PROVE /\ at'[q] = "unlock" /\ step[q] = "readBlock" => data'[q] = disk'[Sector(call[q])]
                     /\ at'[q] \in {"lock", "command", "transfer"} /\ step[q] = "writeBlock" => data'[q] = Changed(q)'
    BY <1>1 DEF DataInv
  <2>1. CASE q = p
    <3>1. step[p] = "readBlock" => data'[p] = disk'[Sector(call[p])]
      <4> SUFFICES ASSUME step[p] = "readBlock" PROVE data'[p] = disk'[Sector(call[p])]
        OBVIOUS
      <4>1. data' = [data EXCEPT ![p] = disk[Sector(call[p])]] /\ disk' = disk
        BY Transferred
      <4>2. data \in [Procs -> [Bytes -> Procs \cup {Nobody}]]
        BY <1>1 DEF TypeOK
      <4> QED
        BY <4>1, <4>2
    <3> QED
      BY <1>2, <2>1, <3>1
  <2>2. CASE q # p
    <3>1. CASE at[q] = "idle"
      BY <1>2, <2>2, <3>1
    <3>2. CASE at[q] # "idle"
      <4>1. CallOk(call[q]) /\ data'[q] = data[q] /\ at'[q] = at[q]
        BY <1>1, <1>2, <2>2, <3>2, Transferred DEF CallInv
      <4>2. disk'[Sector(call[q])] = disk[Sector(call[q])]
        <5>1. CASE step[p] = "readBlock"
          BY <5>1, Transferred
        <5>2. CASE step[p] # "readBlock"
          <6>1. CallOk(call[p]) /\ call[p].op = "write" /\ disk' = [disk EXCEPT ![Sector(call[p])] = data[p]]
            BY <5>2, Transferred
          <6>2. Sector(call[q]) # Sector(call[p])
            BY <2>2, <4>1, <6>1, SectorsOf DEF IInv, ApartInv
          <6> QED
            BY <1>1, <6>1, <6>2 DEF TypeOK
        <5> QED
          BY <5>1, <5>2
      <4>3. Changed(q)' = Changed(q)
        BY <1>1, <4>2 DEF Changed
      <4> QED
        BY <4>1, <4>2, <4>3 DEF IInv, DataInv
    <3> QED
      BY <3>1, <3>2
  <2> QED
    BY <2>1, <2>2
<1> QED
  BY <1>3, <1>4, <1>5, <1>6, <1>7 DEF IInv

\* Unlocking takes the process off the queue.
LEMMA UnlockedIs ==
  ASSUME TypeOK, MutexInv, NEW p \in Procs, at[p] = "unlock", mutex' = Tail(mutex),
         at'[p] \notin {"command", "transfer", "unlock"}, \A q \in Procs \ {p} : at'[q] = at[q]
  PROVE MutexInv' /\ mutex' \in Seq(Procs)
<1>1. mutex \in Seq(Procs) /\ mutex # <<>> /\ Head(mutex) = p /\ \A i, j \in DOMAIN mutex : mutex[i] = mutex[j] => i = j
  BY DEF TypeOK, MutexInv
<1> DEFINE n == Len(mutex) - 1
<1>2. /\ mutex' \in Seq(Procs) /\ n \in Nat /\ DOMAIN mutex' = 1 .. n /\ DOMAIN mutex = 1 .. n + 1
      /\ mutex[1] = p /\ \A i \in 1 .. n : mutex'[i] = mutex[i + 1]
  BY <1>1
<1> HIDE DEF n
<1>3. \A i \in 1 .. n : i \in Int /\ i + 1 \in DOMAIN mutex /\ i + 1 # 1
  BY <1>2
<1>4. ASSUME NEW i \in DOMAIN mutex', NEW j \in DOMAIN mutex', mutex'[i] = mutex'[j] PROVE i = j
  <2>1. i + 1 = j + 1
    BY <1>1, <1>2, <1>3, <1>4
  <2> QED
    BY <1>2, <1>3, <2>1
<1>5. \A i \in DOMAIN mutex' : mutex'[i] # p
  <2> SUFFICES ASSUME NEW i \in 1 .. n, mutex[i + 1] = p PROVE FALSE
    BY <1>2
  <2>1. 1 \in DOMAIN mutex
    BY <1>2
  <2> QED
    BY <1>1, <1>2, <1>3, <2>1
<1>6. ASSUME NEW q \in Procs \ {p}
      PROVE (\E i \in DOMAIN mutex' : mutex'[i] = q) <=> (\E i \in DOMAIN mutex : mutex[i] = q)
  <2>1. ASSUME NEW i \in DOMAIN mutex, mutex[i] = q PROVE \E j \in DOMAIN mutex' : mutex'[j] = q
    <3>1. i # 1 /\ i \in 1 .. n + 1
      BY <1>2, <2>1
    <3>2. i - 1 \in 1 .. n /\ (i - 1) + 1 = i
      BY <1>2, <3>1
    <3> QED
      BY <1>2, <2>1, <3>2
  <2>2. ASSUME NEW j \in DOMAIN mutex', mutex'[j] = q PROVE \E i \in DOMAIN mutex : mutex[i] = q
    BY <1>2, <1>3, <2>2
  <2> QED
    BY <2>1, <2>2
<1>7. \A q \in Procs : at'[q] \in {"command", "transfer", "unlock"} <=> \E i \in DOMAIN mutex' : mutex'[i] = q
  BY <1>5, <1>6 DEF MutexInv
<1>8. \A q \in Procs : at'[q] \notin {"transfer", "unlock"}
  BY Alone
<1> QED
  BY <1>2, <1>4, <1>7, <1>8 DEF MutexInv

LEMMA StepOverwrite ==
  ASSUME IInv, NEW p \in Procs, Overwrite(p)
  PROVE IInv'
<1>1. /\ TypeOK /\ CallInv /\ MutexInv
      /\ at[p] = "unlock" /\ Goto(p, "lock") /\ mutex' = Tail(mutex) /\ call' = call
      /\ step[p] = "readBlock" /\ step' = [step EXCEPT ![p] = "writeBlock"] /\ call[p].op = "write"
      /\ UNCHANGED <<disk, drive>>
      /\ data' = [data EXCEPT ![p] = [b \in Bytes |-> IF b \in Touched(call[p]) THEN p ELSE @[b]]]
  BY DEF Overwrite, Unlock, Unlocked, IInv
<1>2. /\ at' \in [Procs -> {"idle", "lock", "command", "transfer", "unlock"}]
      /\ at'[p] = "lock" /\ \A q \in Procs \ {p} : at'[q] = at[q]
  BY <1>1, Went
<1>3. MutexInv' /\ mutex' \in Seq(Procs)
  BY <1>1, <1>2, UnlockedIs
<1>4. data[p] = disk[Sector(call[p])] /\ data[p] \in [Bytes -> Procs \cup {Nobody}]
  BY <1>1 DEF IInv, DataInv, TypeOK
<1>5. /\ data' \in [Procs -> [Bytes -> Procs \cup {Nobody}]]
      /\ \A q \in Procs \ {p} : data'[q] = data[q]
      /\ data'[p] = [b \in Bytes |-> IF b \in Touched(call[p]) THEN p ELSE data[p][b]]
  BY <1>1, <1>4 DEF TypeOK
<1>6. data'[p] = Changed(p)
  BY <1>4, <1>5 DEF Changed
<1>7. TypeOK'
  BY <1>1, <1>2, <1>3, <1>5 DEF TypeOK
<1>8. CallInv' /\ DriveInv' /\ ApartInv'
  BY <1>1, <1>2 DEF IInv, CallInv, DriveInv, ApartInv
<1>9. StepInv'
  BY <1>1 DEF IInv, StepInv, TypeOK
<1>10. \A q \in Procs : Changed(q)' = Changed(q)
  BY <1>1 DEF Changed
<1>11. \A q \in Procs \ {p} : step'[q] = step[q]
  BY <1>1 DEF TypeOK
<1>12. DataInv'
  BY <1>1, <1>2, <1>5, <1>6, <1>10, <1>11 DEF IInv, DataInv
<1> QED
  BY <1>3, <1>7, <1>8, <1>9, <1>12 DEF IInv

\* A piece is over: what is behind it has been read, and what is left is smaller.
LEMMA GotIs ==
  ASSUME NEW c, CallOk(c), NEW d, \A a \in DOMAIN c.got : a \in Int /\ a < c.offset
  PROVE /\ Got(c, d) = [a \in DOMAIN c.got \cup Reached(c) |->
                          IF a \in Reached(c) THEN d[a % blockSize] ELSE c.got[a]]
        /\ \A a \in DOMAIN Rest(c, d).got : a \in Int /\ a < Rest(c, d).offset
<1>1. /\ Reached(c) = {Sector(c) * blockSize + b : b \in Touched(c)}
      /\ \A a \in Reached(c) : a % blockSize = a - Sector(c) * blockSize
  BY ReachedIs
<1>2. c.offset \in Nat /\ Piece(c) \in Nat
  BY RestIs DEF CallOk
<1>3. \A a \in Reached(c) : a \in Int /\ a >= c.offset /\ a < c.offset + Piece(c)
  BY <1>2 DEF Reached
<1>4. \A a \in Reached(c) : a \notin DOMAIN c.got
  BY <1>2, <1>3
<1>5. Got(c, d) = [a \in DOMAIN c.got \cup Reached(c) |->
                     IF a \in Reached(c) THEN d[a % blockSize] ELSE c.got[a]]
  <2>1. Got(c, d) = [a \in DOMAIN c.got \cup Reached(c) |->
                       IF a \in DOMAIN c.got THEN c.got[a] ELSE d[a - Sector(c) * blockSize]]
    BY <1>1 DEF Got
  <2> QED
    BY <1>1, <1>4, <2>1
<1>6. Rest(c, d).offset = c.offset + Piece(c) /\ Rest(c, d).got = IF c.op = "read" THEN Got(c, d) ELSE c.got
  BY RestIs
<1>7. ASSUME NEW a \in DOMAIN c.got \cup Reached(c) PROVE a \in Int /\ a < c.offset + Piece(c)
  BY <1>2, <1>3
<1>8. DOMAIN Rest(c, d).got \subseteq DOMAIN c.got \cup Reached(c)
  <2>1. DOMAIN Got(c, d) = DOMAIN c.got \cup Reached(c)
    BY <1>5
  <2> QED
    BY <1>6, <2>1
<1> QED
  BY <1>5, <1>6, <1>7, <1>8

LEMMA StepContinue ==
  ASSUME IInv, NEW p \in Procs, ReadBlock(p) \/ WriteBlock(p)
  PROVE IInv'
<1> DEFINE c == call[p]
<1>1. /\ TypeOK /\ CallInv /\ MutexInv
      /\ at[p] = "unlock" /\ mutex' = Tail(mutex)
      /\ UNCHANGED <<disk, drive>> /\ data' = [data EXCEPT ![p] = Blank]
  BY DEF ReadBlock, WriteBlock, Continue, Unlock, Unlocked, IInv
<1>2. \/ c.togo = Piece(c) /\ call' = [call EXCEPT ![p] = NoCall] /\ Goto(p, "idle")
      \/ c.togo # Piece(c) /\ call' = [call EXCEPT ![p] = Rest(c, data[p])] /\ Goto(p, "lock")
  BY DEF ReadBlock, WriteBlock, Continue
<1>3. step' \in [Procs -> {"readBlock", "writeBlock"}] /\ step'[p] = "readBlock" /\ \A q \in Procs \ {p} : step'[q] = step[q]
  <2>1. CASE ReadBlock(p)
    BY <1>1, <2>1 DEF ReadBlock, IInv, StepInv, TypeOK
  <2>2. CASE WriteBlock(p)
    BY <1>1, <2>2 DEF WriteBlock, TypeOK
  <2> QED
    BY <2>1, <2>2
<1>4. CallOk(c) /\ (\A a \in DOMAIN c.got : a \in Int /\ a < c.offset) /\ call = [q \in Procs |-> call[q]]
  BY <1>1 DEF CallInv
<1>5. /\ at' \in [Procs -> {"idle", "lock", "command", "transfer", "unlock"}]
      /\ at'[p] = IF c.togo = Piece(c) THEN "idle" ELSE "lock"
      /\ \A q \in Procs \ {p} : at'[q] = at[q]
  BY <1>1, <1>2, Went
<1>6. /\ call' = [q \in Procs |-> call'[q]]
      /\ call'[p] = IF c.togo = Piece(c) THEN NoCall ELSE Rest(c, data[p])
      /\ \A q \in Procs \ {p} : call'[q] = call[q]
  BY <1>2, <1>4
<1>7. MutexInv' /\ mutex' \in Seq(Procs)
  BY <1>1, <1>5, UnlockedIs
<1>8. data' \in [Procs -> [Bytes -> Procs \cup {Nobody}]] /\ \A q \in Procs \ {p} : data'[q] = data[q]
  BY <1>1 DEF TypeOK, Blank
<1> HIDE DEF c
<1>9. CallInv'
  <2> SUFFICES ASSUME NEW q \in Procs
               PROVE IF at'[q] = "idle" THEN call'[q] = NoCall
                     ELSE CallOk(call'[q]) /\ \A a \in DOMAIN call'[q].got : a \in Int /\ a < call'[q].offset
    BY <1>6 DEF CallInv
  <2>1. CASE q = p /\ c.togo = Piece(c)
    BY <1>5, <1>6, <2>1
  <2>2. CASE q = p /\ c.togo # Piece(c)
    <3>1. at'[q] = "lock" /\ call'[q] = Rest(c, data[p])
      BY <1>5, <1>6, <2>2
    <3>2. CallOk(Rest(c, data[p]))
      BY <1>4, <2>2, RestIs
    <3>3. \A a \in DOMAIN Rest(c, data[p]).got : a \in Int /\ a < Rest(c, data[p]).offset
      BY <1>4, GotIs
    <3> QED
      BY <3>1, <3>2, <3>3
  <2>3. CASE q # p
    BY <1>1, <1>5, <1>6, <2>3 DEF CallInv
  <2> QED
    BY <2>1, <2>2, <2>3
<1>10. TypeOK'
  <2>1. \A q \in Procs : at'[q] = "idle" <=> call'[q].togo = 0
    BY <1>9 DEF CallInv, CallOk, NoCall
  <2> QED
    BY <1>1, <1>3, <1>5, <1>7, <1>8, <2>1 DEF TypeOK
<1>11. DriveInv'
  BY <1>1, <1>5, <1>6 DEF IInv, DriveInv
<1>12. StepInv'
  BY <1>3, <1>6 DEF IInv, StepInv
<1>13. \A q \in Procs \ {p} : Changed(q)' = Changed(q)
  BY <1>1, <1>6 DEF Changed
<1>14. DataInv'
  <2> SUFFICES ASSUME NEW q \in Procs, call'[q].op = "write"
               PROVE /\ at'[q] = "unlock" /\ step'[q] = "readBlock" => data'[q] = disk'[Sector(call'[q])]
                     /\ at'[q] \in {"lock", "command", "transfer"} /\ step'[q] = "writeBlock" => data'[q] = Changed(q)'
    BY DEF DataInv
  <2>1. CASE q = p
    BY <1>3, <1>5, <2>1
  <2>2. CASE q # p
    BY <1>1, <1>3, <1>5, <1>6, <1>8, <1>13, <2>2 DEF IInv, DataInv
  <2> QED
    BY <2>1, <2>2
<1>15. ApartInv'
  <2>1. \A q \in Procs : call'[q].op = "write" => (call[q].op = "write" /\ Sectors(call'[q]) \subseteq Sectors(call[q]))
    <3> SUFFICES ASSUME NEW q \in Procs, call'[q].op = "write"
                 PROVE call[q].op = "write" /\ Sectors(call'[q]) \subseteq Sectors(call[q])
      OBVIOUS
    <3>1. CASE q # p
      BY <1>6, <3>1
    <3>2. CASE q = p
      <4>1. call'[q] = Rest(c, data[p])
        BY <1>6, <3>2 DEF NoCall
      <4> QED
        BY <1>4, <3>2, <4>1, RestIs DEF c
    <3> QED
      BY <3>1, <3>2
  <2> QED
    BY <2>1 DEF IInv, ApartInv
<1> QED
  BY <1>7, <1>9, <1>10, <1>11, <1>12, <1>14, <1>15 DEF IInv

LEMMA Step == IInv /\ [Next]_vars => IInv'
<1> SUFFICES ASSUME IInv, [Next]_vars PROVE IInv'
  OBVIOUS
<1>1. CASE UNCHANGED vars
  BY <1>1 DEF vars, IInv, TypeOK, CallInv, MutexInv, DriveInv, StepInv, DataInv, Changed, ApartInv
<1>2. CASE Next
  <2>1. CASE Done
    BY <2>1, StepDone
  <2>2. CASE \E p \in Procs, r \in Requests : Begin(p, r)
    BY <2>2, StepBegin
  <2>3. CASE \E p \in Procs : Go(p)
    BY <2>3, StepLock, StepCommand, StepTransfer, StepOverwrite, StepContinue DEF Go
  <2> QED
    BY <1>2, <2>1, <2>2, <2>3 DEF Next
<1> QED
  BY <1>1, <1>2

LEMMA Always == Spec => []IInv
<1>1. IInv /\ [Next]_vars => IInv'
  BY Step
<1> QED
  BY <1>1, Start, PTL DEF Spec

----------------------------------------------------------------------------
(* The refinement: each step is a step of Sectors or changes nothing there. *)

\* What Sectors sees of the calls.
Seen(p) == IF Moved(p) THEN Rest(call[p], data[p]) ELSE call[p]
Calls == [p \in Procs |-> Seen(p)]

\* A step that Sectors does not see.
LEMMA Unseen ==
  ASSUME disk' = disk, \A p \in Procs : Seen(p)' = Seen(p)
  PROVE Content(disk)' = Content(disk) /\ Calls' = Calls
BY DEF Content, Calls

\* The steps of Sectors, with its state written as Content(disk) and Calls.
LEMMA StoreCall ==
  ASSUME NEW p \in Procs, Seen(p) = NoCall, NEW c, c.togo > 0, c.got = <<>>, Seen(p)' = c,
         \A q \in Procs \ {p} : Seen(q)' = Seen(q), disk' = disk
  PROVE Store!Call(p)
<1>1. Calls[p] = NoCall /\ Calls'[p] = c /\ Calls' = [Calls EXCEPT ![p] = Calls'[p]]
  BY DEF Calls
<1>2. Content(disk)' = Content(disk)
  BY DEF Content
<1> QED
  BY <1>1, <1>2 DEF Store!Call, Store!NoCall, NoCall, Calls, Seen, Content, Addresses

LEMMA StoreReturn ==
  ASSUME NEW p \in Procs, Seen(p).togo = 0, Seen(p)' = NoCall,
         \A q \in Procs \ {p} : Seen(q)' = Seen(q), disk' = disk
  PROVE Store!Return(p)
<1>1. Calls[p].togo = 0 /\ Calls' = [Calls EXCEPT ![p] = NoCall]
  BY DEF Calls
<1>2. Content(disk)' = Content(disk)
  BY DEF Content
<1> QED
  BY <1>1, <1>2 DEF Store!Return, Store!NoCall, NoCall, Calls, Seen, Content, Addresses

LEMMA StoreRead ==
  ASSUME NEW p \in Procs, NEW c, NEW got, NEW next, Seen(p) = c, c.togo > 0, c.op = "read",
         got = [a \in DOMAIN c.got \cup Store!Part(c) |->
                  IF a \in Store!Part(c) THEN Content(disk)[a] ELSE c.got[a]],
         next = Store!After(c, got), Seen(p)' = next,
         \A q \in Procs \ {p} : Seen(q)' = Seen(q), disk' = disk
  PROVE Store!ReadPart(p)
<1>1. Calls[p] = c
  BY DEF Calls
<1>2. Calls' = [Calls EXCEPT ![p] = next]
  BY DEF Calls
<1>3. Content(disk)' = Content(disk)
  BY DEF Content
<1>4. Store!ReadPart(p) <=>
        /\ Calls[p].togo > 0 /\ Calls[p].op = "read"
        /\ Calls' = [Calls EXCEPT ![p] =
             Store!After(Calls[p], [a \in DOMAIN Calls[p].got \cup Store!Part(Calls[p]) |->
                                      IF a \in Store!Part(Calls[p]) THEN Content(disk)[a] ELSE Calls[p].got[a]])]
        /\ Content(disk)' = Content(disk)
  BY ZenonT(60) DEF Store!ReadPart, Calls, Seen, Content, Addresses
<1> QED
  BY <1>1, <1>2, <1>3, <1>4

LEMMA StoreWrite ==
  ASSUME NEW p \in Procs, NEW c, NEW next, Seen(p) = c, c.togo > 0, c.op = "write",
         next = Store!After(c, c.got), Seen(p)' = next,
         \A q \in Procs \ {p} : Seen(q)' = Seen(q),
         Content(disk)' = [a \in Addresses |-> IF a \in Store!Part(c) THEN p ELSE Content(disk)[a]]
  PROVE Store!WritePart(p)
<1>1. Calls[p] = c
  BY DEF Calls
<1>2. Calls' = [Calls EXCEPT ![p] = next]
  BY DEF Calls
<1> QED
  BY <1>1, <1>2 DEF Store!WritePart, Store!Address, Calls, Seen, Content, Addresses

\* What Sectors sees of the other calls stays as it is.
LEMMA Others ==
  ASSUME IInv, NEW p \in Procs, Go(p) \/ \E r \in Requests : Begin(p, r)
  PROVE \A q \in Procs \ {p} : Seen(q)' = Seen(q)
<1>1. TypeOK /\ call = [q \in Procs |-> call[q]]
  BY DEF IInv, CallInv
<1> SUFFICES ASSUME NEW q \in Procs \ {p}
             PROVE at'[q] = at[q] /\ step'[q] = step[q] /\ call'[q] = call[q] /\ data'[q] = data[q]
  BY DEF Seen, Moved
<1>2. at'[q] = at[q]
  BY <1>1 DEF TypeOK, Goto, Go, Begin, Lock, Command, Transfer, ReadBlock, Overwrite, WriteBlock, Continue
<1>3. step'[q] = step[q]
  BY <1>1 DEF TypeOK, Go, Begin, Lock, Command, Transfer, ReadBlock, Overwrite, WriteBlock
<1>4. call'[q] = call[q]
  BY <1>1 DEF Go, Begin, Lock, Command, Transfer, ReadBlock, Overwrite, WriteBlock, Continue
<1>5. data'[q] = data[q]
  BY <1>1 DEF TypeOK, Go, Begin, Lock, Command, Transfer, ReadBlock, Overwrite, WriteBlock, Continue
<1> QED
  BY <1>2, <1>3, <1>4, <1>5

LEMMA RefinesBegin ==
  ASSUME IInv, NEW p \in Procs, NEW r \in Requests, Begin(p, r)
  PROVE Store!Call(p)
<1> DEFINE c == [op |-> r.op, offset |-> r.offset, togo |-> r.n, got |-> <<>>]
<1>1. /\ TypeOK /\ CallInv /\ call = [q \in Procs |-> call[q]]
      /\ at[p] = "idle" /\ Goto(p, "lock") /\ call' = [call EXCEPT ![p] = c] /\ disk' = disk
  BY DEF Begin, IInv, CallInv
<1>2. at'[p] = "lock" /\ call'[p] = c
  BY <1>1, Went
<1>3. Seen(p) = NoCall /\ Seen(p)' = c
  BY <1>1, <1>2 DEF Seen, Moved, CallInv
<1>4. c.togo > 0 /\ c.got = <<>>
  BY DiskAssumption
<1>5. \A q \in Procs \ {p} : Seen(q)' = Seen(q)
  BY Others
<1> HIDE DEF c
<1> QED
  BY <1>1, <1>3, <1>4, <1>5, StoreCall

\* Asking for the mutex, giving the command and changing the buffer are not seen.
LEMMA RefinesUnseen ==
  ASSUME IInv, NEW p \in Procs, Lock(p) \/ Command(p) \/ Overwrite(p)
  PROVE Content(disk)' = Content(disk) /\ Calls' = Calls
<1>1. TypeOK /\ disk' = disk /\ call' = call /\ \A q \in Procs \ {p} : Seen(q)' = Seen(q)
  BY Others DEF Go, Lock, Command, Overwrite, Unlock, IInv
<1>2. CASE Lock(p) \/ Command(p)
  <2>1. at[p] # "unlock" /\ at'[p] # "unlock"
    BY <1>1, <1>2 DEF Lock, Command, Goto, TypeOK
  <2> QED
    BY <1>1, <2>1, Unseen DEF Seen, Moved
<1>3. CASE Overwrite(p)
  <2>1. call[p].op = "write" /\ step[p] = "readBlock" /\ at'[p] # "unlock"
    BY <1>1, <1>3 DEF Overwrite, Goto, TypeOK
  <2> QED
    BY <1>1, <2>1, Unseen DEF Seen, Moved
<1> QED
  BY <1>2, <1>3

\* The sector that a call reads is in its buffer when the drive has answered, ...
LEMMA RefinesRead ==
  ASSUME IInv, NEW p \in Procs, Transfer(p), call[p].op = "read"
  PROVE Store!ReadPart(p)
<1> DEFINE c == call[p]
           d == disk[Sector(c)]
<1>1. TypeOK /\ at[p] = "transfer" /\ Goto(p, "unlock") /\ step' = step /\ call' = call /\ step[p] = "readBlock"
  BY DEF Transfer, IInv, StepInv
<1>2. CallOk(c) /\ disk' = disk /\ data'[p] = d
  BY <1>1, Transferred DEF TypeOK
<1>3. at'[p] = "unlock"
  BY <1>1, Went
<1>4. Seen(p) = c /\ Seen(p)' = Rest(c, d)
  BY <1>1, <1>2, <1>3 DEF Seen, Moved
<1>5. \A a \in DOMAIN c.got : a \in Int /\ a < c.offset
  BY <1>1 DEF IInv, CallInv
<1>6. c.togo > 0 /\ c.op = "read"
  BY <1>2 DEF CallOk
<1>7. \A q \in Procs \ {p} : Seen(q)' = Seen(q)
  BY Others DEF Go
<1> HIDE DEF c
<1>8. Got(c, d) = [a \in DOMAIN c.got \cup Reached(c) |-> IF a \in Reached(c) THEN d[a % blockSize] ELSE c.got[a]]
  BY <1>2, <1>5, GotIs
<1>9. \A a \in Reached(c) : Content(disk)[a] = d[a % blockSize]
  BY <1>2, ReachedIs DEF Content
<1>10. Got(c, d) = [a \in DOMAIN c.got \cup Store!Part(c) |->
                      IF a \in Store!Part(c) THEN Content(disk)[a] ELSE c.got[a]]
  BY <1>2, <1>8, <1>9, PartIs
<1>11. Rest(c, d) = Store!After(c, Got(c, d))
  BY <1>2, <1>6, AfterIs DEF Rest
<1> HIDE DEF d
<1> DEFINE got == Got(c, d)
           next == Rest(c, d)
<1>12. /\ next = Store!After(c, got) /\ Seen(p)' = next
       /\ got = [a \in DOMAIN c.got \cup Store!Part(c) |->
                   IF a \in Store!Part(c) THEN Content(disk)[a] ELSE c.got[a]]
  BY <1>4, <1>10, <1>11
<1> HIDE DEF got, next
<1> QED
  BY <1>2, <1>4, <1>6, <1>7, <1>12, StoreRead

\* ... as the piece that it writes is on the disk, and the rest of the sector as it was.
LEMMA RefinesWrite ==
  ASSUME IInv, NEW p \in Procs, Transfer(p), call[p].op = "write", step[p] = "writeBlock"
  PROVE Store!WritePart(p)
<1> DEFINE c == call[p]
           s == Sector(c)
           next == Rest(c, data[p])
<1>1. TypeOK /\ at[p] = "transfer" /\ Goto(p, "unlock") /\ step' = step /\ call' = call
  BY DEF Transfer, IInv
<1>2. CallOk(c) /\ disk' = [disk EXCEPT ![s] = Changed(p)] /\ data' = data
  BY Transferred
<1>3. at'[p] = "unlock"
  BY <1>1, Went
<1>4. Seen(p) = c /\ Seen(p)' = next
  BY <1>1, <1>2, <1>3 DEF Seen, Moved
<1>5. c.togo > 0 /\ c.op = "write"
  BY <1>2 DEF CallOk
<1>6. \A q \in Procs \ {p} : Seen(q)' = Seen(q)
  BY Others DEF Go
<1>7. next = Store!After(c, c.got)
  BY <1>2, <1>5, AfterIs DEF Rest
<1>8. Changed(p) = [b \in Bytes |-> IF b \in Touched(c) THEN p ELSE disk[s][b]]
  BY DEF Changed
<1>9. disk \in [0 .. nSectors - 1 -> [Bytes -> Procs \cup {Nobody}]] /\ s \in 0 .. nSectors - 1
  BY <1>1, <1>2, PieceIs DEF TypeOK
<1> HIDE DEF c, s, next
<1>10. ASSUME NEW a \in Addresses
       PROVE disk'[a \div blockSize][a % blockSize] = IF a \in Reached(c) THEN p ELSE Content(disk)[a]
  <2> DEFINE t == a \div blockSize
             b == a % blockSize
  <2>1. t \in 0 .. nSectors - 1 /\ b \in Bytes
    BY AddressIs
  <2>2. a \in Reached(c) <=> (t = s /\ b \in Touched(c))
    BY <1>2, ReachedIs DEF s
  <2>3. Content(disk)[a] = disk[t][b]
    BY DEF Content
  <2> HIDE DEF t, b
  <2>4. disk'[t][b] = IF t = s /\ b \in Touched(c) THEN p ELSE disk[t][b]
    BY <1>2, <1>8, <1>9, <2>1
  <2>5. disk'[t][b] = IF a \in Reached(c) THEN p ELSE Content(disk)[a]
    BY <2>2, <2>3, <2>4
  <2> QED
    BY <2>5 DEF t, b
<1>11. Content(disk)' = [a \in Addresses |-> IF a \in Store!Part(c) THEN p ELSE Content(disk)[a]]
  BY <1>2, <1>10, PartIs DEF Content
<1> QED
  BY <1>4, <1>5, <1>6, <1>7, <1>11, StoreWrite

\* The sector that is read before a piece is changed is not seen.
LEMMA RefinesFetch ==
  ASSUME IInv, NEW p \in Procs, Transfer(p), call[p].op = "write", step[p] = "readBlock"
  PROVE Content(disk)' = Content(disk) /\ Calls' = Calls
<1>1. TypeOK /\ at[p] = "transfer" /\ step' = step /\ call' = call /\ \A q \in Procs \ {p} : Seen(q)' = Seen(q)
  BY Others DEF Go, Transfer, IInv
<1>2. disk' = disk
  BY Transferred
<1>3. ~Moved(p) /\ ~Moved(p)'
  BY <1>1 DEF Moved
<1>4. Seen(p)' = Seen(p)
  BY <1>1, <1>3 DEF Seen
<1> QED
  BY <1>1, <1>2, <1>4, Unseen

\* After its last piece a call returns; after another it goes on from where it was seen.
LEMMA RefinesContinue ==
  ASSUME IInv, NEW p \in Procs, ReadBlock(p) \/ WriteBlock(p)
  PROVE Store!Return(p) \/ (Content(disk)' = Content(disk) /\ Calls' = Calls)
<1> DEFINE c == call[p]
<1>1. /\ TypeOK /\ call = [q \in Procs |-> call[q]] /\ CallOk(c)
      /\ at[p] = "unlock" /\ disk' = disk /\ Moved(p)
      /\ \A q \in Procs \ {p} : Seen(q)' = Seen(q)
  BY Others DEF Go, ReadBlock, WriteBlock, Continue, Unlock, Moved, IInv, CallInv
<1>2. Seen(p) = Rest(c, data[p])
  BY <1>1 DEF Seen
<1>3. CASE c.togo = Piece(c)
  <2>1. call'[p] = NoCall /\ at'[p] = "idle"
    BY <1>1, <1>3 DEF ReadBlock, WriteBlock, Continue, Goto, TypeOK
  <2>2. Seen(p)' = NoCall
    BY <2>1 DEF Seen, Moved
  <2>3. Seen(p).togo = 0
    <3>1. Seen(p).togo = c.togo - Piece(c) /\ c.togo \in Nat
      BY <1>1, <1>2, RestIs DEF CallOk
    <3> QED
      BY <1>3, <3>1
  <2> QED
    BY <1>1, <2>2, <2>3, StoreReturn
<1>4. CASE c.togo # Piece(c)
  <2>1. call'[p] = Rest(c, data[p]) /\ at'[p] = "lock"
    BY <1>1, <1>4 DEF ReadBlock, WriteBlock, Continue, Goto, TypeOK
  <2>2. Seen(p)' = Seen(p)
    BY <1>2, <2>1 DEF Seen, Moved
  <2> QED
    BY <1>1, <2>2, Unseen
<1> QED
  BY <1>3, <1>4

LEMMA RefinesStep ==
  IInv /\ [Next]_vars => (Store!SectorsNext \/ (Content(disk)' = Content(disk) /\ Calls' = Calls))
<1> SUFFICES ASSUME IInv, [Next]_vars
             PROVE Store!SectorsNext \/ (Content(disk)' = Content(disk) /\ Calls' = Calls)
  OBVIOUS
<1>1. CASE UNCHANGED vars \/ Done
  <2>1. UNCHANGED <<disk, at, step, call, data>>
    BY <1>1 DEF vars, Done
  <2> QED
    BY <2>1, Unseen DEF Seen, Moved
<1>2. CASE \E p \in Procs, r \in Requests : Begin(p, r)
  BY <1>2, RefinesBegin DEF Store!SectorsNext
<1>3. CASE \E p \in Procs : Go(p)
  <2> PICK p \in Procs : Go(p)
    BY <1>3
  <2>1. CASE Lock(p) \/ Command(p) \/ Overwrite(p)
    BY <2>1, RefinesUnseen
  <2>2. CASE Transfer(p)
    <3>1. CallOk(call[p]) /\ step[p] \in {"readBlock", "writeBlock"}
      BY <2>2, Transferred DEF IInv, TypeOK
    <3>2. call[p].op \in {"read", "write"}
      BY <3>1 DEF CallOk
    <3> QED
      BY <2>2, <3>1, <3>2, RefinesRead, RefinesWrite, RefinesFetch DEF Store!SectorsNext
  <2>3. CASE ReadBlock(p) \/ WriteBlock(p)
    BY <2>3, RefinesContinue DEF Store!SectorsNext
  <2> QED
    BY <2>1, <2>2, <2>3 DEF Go
<1> QED
  BY <1>1, <1>2, <1>3 DEF Next

LEMMA RefinesInit == Init => Store!SectorsInit
<1> SUFFICES ASSUME Init PROVE Store!SectorsInit
  OBVIOUS
<1>1. \A a \in Addresses : disk[a \div blockSize][a % blockSize] = Nobody
  BY AddressIs DEF Init, Blank
<1>2. Calls = [p \in Procs |-> NoCall]
  BY DEF Init, Calls, Seen, Moved
<1>3. Content(disk) = [a \in Addresses |-> Nobody]
  BY <1>1 DEF Content
<1> QED
  BY <1>2, <1>3 DEF Store!SectorsInit, Store!Address, Store!NoCall, NoCall, Content, Calls, Seen, Addresses

----------------------------------------------------------------------------
(* The theorems.                                                           *)

\* The drive and its mutex, the buffers and the calls have their types, and a process
\* without anything left to do is out of the loops of readFully and writeFully (block.cc:37).
THEOREM TypeCorrect == Spec => []TypeOK
<1>1. IInv => TypeOK
  BY DEF IInv
<1> QED
  BY <1>1, Always, PTL

\* A call that crosses sectors, and a write that reads its sector first and locks the
\* mutex twice, have the effect of one step for each sector (block.cc:37, ide.cc).
THEOREM DoesWhatSectorsPromises == Spec => IsSectorStore
<1>1. Init => Store!SectorsInit
  BY RefinesInit
<1>2. IInv /\ [Next]_vars =>
        [Store!SectorsNext]_<<[a \in 0 .. nSectors * blockSize - 1 |-> disk[a \div blockSize][a % blockSize]],
                              [p \in Procs |-> IF Moved(p) THEN Rest(call[p], data[p]) ELSE call[p]]>>
  BY RefinesStep DEF Content, Calls, Seen, Addresses
<1> QED
  BY <1>1, <1>2, Always, PTL DEF Spec, IsSectorStore, Store!SectorsSpec

----------------------------------------------------------------------------
(* The console.                                                            *)

\* The queue of a mutex, with the processes W in it, each once.
Queued(m, W) ==
  /\ m \in Seq(Procs)
  /\ \A i, j \in DOMAIN m : m[i] = m[j] => i = j
  /\ \A p \in Procs : p \in W <=> \E i \in DOMAIN m : m[i] = p

LEMMA Joined ==
  ASSUME NEW m, NEW W, Queued(m, W), NEW p \in Procs, p \notin W
  PROVE /\ Queued(Append(m, p), W \cup {p}) /\ Append(m, p) # <<>>
        /\ m # <<>> => Head(Append(m, p)) = Head(m)
<1> DEFINE n == Len(m)
           g == Append(m, p)
<1>1. /\ m \in Seq(Procs) /\ n \in Nat /\ DOMAIN m = 1 .. n
      /\ g \in Seq(Procs) /\ DOMAIN g = 1 .. n + 1 /\ g[n + 1] = p
      /\ \A i \in 1 .. n : g[i] = m[i]
      /\ g # <<>> /\ (m # <<>> => Head(g) = Head(m))
  BY DEF Queued
<1>2. \A i \in 1 .. n : m[i] # p
  BY <1>1 DEF Queued
<1> HIDE DEF n, g
<1>3. ASSUME NEW i \in 1 .. n + 1, NEW j \in 1 .. n + 1, g[i] = g[j] PROVE i = j
  <2>1. (i \in 1 .. n \/ i = n + 1) /\ (j \in 1 .. n \/ j = n + 1)
    BY <1>1
  <2> QED
    BY <1>1, <1>2, <1>3, <2>1 DEF Queued
<1>4. ASSUME NEW q \in Procs PROVE q \in W \cup {p} <=> \E i \in 1 .. n + 1 : g[i] = q
  <2>1. CASE q = p
    BY <1>1, <2>1
  <2>2. CASE q # p
    <3>1. (\E i \in 1 .. n + 1 : g[i] = q) <=> (\E i \in 1 .. n : m[i] = q)
      BY <1>1, <2>2
    <3> QED
      BY <1>1, <2>2, <3>1 DEF Queued
  <2> QED
    BY <2>1, <2>2
<1>5. Queued(g, W \cup {p})
  BY <1>1, <1>3, <1>4 DEF Queued
<1> QED
  BY <1>1, <1>5 DEF g

LEMMA Left ==
  ASSUME NEW m, NEW W, Queued(m, W), m # <<>>
  PROVE Queued(Tail(m), W \ {Head(m)})
<1> DEFINE n == Len(m) - 1
           g == Tail(m)
           p == Head(m)
<1>1. /\ n \in Nat /\ DOMAIN m = 1 .. n + 1 /\ g \in Seq(Procs) /\ DOMAIN g = 1 .. n /\ m[1] = p
      /\ \A i \in 1 .. n : g[i] = m[i + 1]
  BY DEF Queued
<1> HIDE DEF n, g, p
<1>2. \A i \in 1 .. n : i \in Int /\ i + 1 \in 1 .. n + 1 /\ i + 1 # 1
  BY <1>1
<1>3. 1 \in 1 .. n + 1
  BY <1>1
<1>4. ASSUME NEW i \in 1 .. n, NEW j \in 1 .. n, g[i] = g[j] PROVE i = j
  <2>1. m[i + 1] = m[j + 1] /\ i + 1 \in DOMAIN m /\ j + 1 \in DOMAIN m
    BY <1>1, <1>2, <1>4
  <2>2. \A k, l \in DOMAIN m : m[k] = m[l] => k = l
    BY DEF Queued
  <2>3. i + 1 = j + 1
    BY <2>1, <2>2
  <2> QED
    BY <1>2, <2>3
<1>5. \A i \in 1 .. n : g[i] # p
  BY <1>1, <1>2, <1>3 DEF Queued
<1>6. ASSUME NEW q \in Procs PROVE q \in W \ {p} <=> \E i \in 1 .. n : g[i] = q
  <2>1. CASE q = p
    BY <1>5, <2>1
  <2>2. ASSUME q # p, NEW i \in 1 .. n + 1, m[i] = q PROVE \E j \in 1 .. n : g[j] = q
    <3>1. i # 1
      BY <1>1, <2>2
    <3>2. i - 1 \in 1 .. n /\ (i - 1) + 1 = i
      BY <1>1, <3>1
    <3> QED
      BY <1>1, <2>2, <3>2
  <2>3. ASSUME NEW j \in 1 .. n, g[j] = q PROVE \E i \in 1 .. n + 1 : m[i] = q
    BY <1>1, <1>2, <2>3
  <2>4. q \in W <=> \E i \in 1 .. n + 1 : m[i] = q
    BY <1>1 DEF Queued
  <2> QED
    BY <2>1, <2>2, <2>3, <2>4
<1> QED
  BY <1>1, <1>4, <1>6 DEF Queued, g, p

\* Who polls the serial line: the head of the queue of getMutex, and when it has seen the
\* bit of the status register, the character is still there.
Pollers == {p \in Procs : lineAt[p] \in {"poll", "read"}}
ReadInv == \A p \in Procs : lineAt[p] = "read" => (rbr.new /\ lineMutex # <<>> /\ Head(lineMutex) = p)

LineInv ==
  /\ Line!TypeOK /\ sz \in [Procs -> Nat]
  /\ rbr \in [char : Line!Keys \cup {Line!Nul}, new : BOOLEAN]
  /\ Queued(lineMutex, Pollers) /\ ReadInv
  /\ Line!EachCharacterOnce

LEMMA LineStart == Line!Init => LineInv
<1> SUFFICES ASSUME Line!Init PROVE LineInv
  OBVIOUS
<1>1. Pollers = {} /\ ReadInv
  BY DEF Line!Init, Pollers, ReadInv
<1>2. Queued(<<>>, {})
  BY DEF Queued
<1>3. Line!TypeOK /\ sz \in [Procs -> Nat] /\ rbr \in [char : Line!Keys \cup {Line!Nul}, new : BOOLEAN]
  BY DEF Line!Init, Line!TypeOK
<1>4. Line!EachCharacterOnce
  BY DEF Line!Init, Line!EachCharacterOnce
<1> QED
  BY <1>1, <1>2, <1>3, <1>4 DEF Line!Init, LineInv

LEMMA LineType ==
  ASSUME LineInv, NEW k \in Line!Keys, Line!Type(k)
  PROVE LineInv'
<1>1. /\ ~rbr.new /\ rbr' = [char |-> k, new |-> TRUE] /\ typed' = Append(typed, k)
      /\ UNCHANGED <<lineMutex, lineAt, char, buf, sz, taken, heard>>
  BY DEF Line!Type
<1>2. typed = taken /\ typed \in Seq(Line!Keys) /\ typed' \in Seq(Line!Keys)
  BY <1>1 DEF LineInv, Line!EachCharacterOnce, Line!TypeOK
<1>3. Line!EachCharacterOnce'
  BY <1>1, <1>2 DEF Line!EachCharacterOnce
<1>4. Line!TypeOK'
  BY <1>1, <1>2 DEF LineInv, Line!TypeOK
<1>5. Queued(lineMutex, Pollers)' /\ ReadInv'
  BY <1>1 DEF LineInv, Queued, Pollers, ReadInv
<1> QED
  BY <1>1, <1>3, <1>4, <1>5 DEF LineInv

LEMMA LineWent ==
  ASSUME LineInv, NEW p \in Procs, NEW loc \in {"gets", "poll", "read", "edit", "line"}, Line!Goto(p, loc)
  PROVE /\ lineAt' \in [Procs -> {"gets", "poll", "read", "edit", "line"}]
        /\ lineAt'[p] = loc /\ \A q \in Procs \ {p} : lineAt'[q] = lineAt[q]
BY DEF LineInv, Line!TypeOK, Line!Goto

LEMMA LineLock ==
  ASSUME LineInv, NEW p \in Procs, Line!Lock(p)
  PROVE LineInv'
<1>1. /\ lineAt[p] = "gets" /\ lineMutex' = Append(lineMutex, p) /\ Line!Goto(p, "poll")
      /\ UNCHANGED <<rbr, char, buf, sz, typed, taken, heard>>
  BY DEF Line!Lock
<1>2. /\ lineAt' \in [Procs -> {"gets", "poll", "read", "edit", "line"}]
      /\ lineAt'[p] = "poll" /\ \A q \in Procs \ {p} : lineAt'[q] = lineAt[q]
  BY <1>1, LineWent
<1>3. Pollers' = Pollers \cup {p} /\ p \notin Pollers /\ Queued(lineMutex, Pollers)
  BY <1>1, <1>2 DEF Pollers, LineInv
<1>4. /\ Queued(lineMutex', Pollers') /\ lineMutex' # <<>>
      /\ lineMutex # <<>> => Head(lineMutex') = Head(lineMutex)
  BY <1>1, <1>3, Joined
<1>5. ReadInv'
  BY <1>1, <1>2, <1>4 DEF LineInv, ReadInv
<1>6. Line!TypeOK' /\ Line!EachCharacterOnce'
  BY <1>1, <1>2, <1>4 DEF LineInv, Line!TypeOK, Line!EachCharacterOnce, Queued
<1> QED
  BY <1>1, <1>4, <1>5, <1>6 DEF LineInv, Queued

LEMMA LinePoll ==
  ASSUME LineInv, NEW p \in Procs, Line!Poll(p)
  PROVE LineInv'
<1>1. /\ lineAt[p] = "poll" /\ Head(lineMutex) = p /\ rbr.new /\ Line!Goto(p, "read")
      /\ UNCHANGED <<rbr, lineMutex, char, buf, sz, typed, taken, heard>>
  BY DEF Line!Poll, Line!Holds
<1>2. /\ lineAt' \in [Procs -> {"gets", "poll", "read", "edit", "line"}]
      /\ lineAt'[p] = "read" /\ \A q \in Procs \ {p} : lineAt'[q] = lineAt[q]
  BY <1>1, LineWent
<1>3. Pollers' = Pollers /\ p \in Pollers /\ Queued(lineMutex, Pollers)
  BY <1>1, <1>2 DEF Pollers, LineInv
<1>4. lineMutex # <<>>
  BY <1>3 DEF Queued
<1>5. ReadInv'
  BY <1>1, <1>2, <1>4 DEF LineInv, ReadInv
<1>6. Line!TypeOK' /\ Line!EachCharacterOnce'
  BY <1>1, <1>2 DEF LineInv, Line!TypeOK, Line!EachCharacterOnce
<1> QED
  BY <1>1, <1>3, <1>5, <1>6 DEF LineInv, Queued

LEMMA LineGet ==
  ASSUME LineInv, NEW p \in Procs, Line!Get(p)
  PROVE LineInv'
<1>1. /\ lineAt[p] = "read" /\ rbr' = [rbr EXCEPT !.new = FALSE] /\ lineMutex' = Tail(lineMutex)
      /\ char' = [char EXCEPT ![p] = rbr.char] /\ taken' = Append(taken, rbr.char)
      /\ Line!Goto(p, "edit") /\ UNCHANGED <<buf, sz, typed>>
  BY DEF Line!Get
<1>2. /\ lineAt' \in [Procs -> {"gets", "poll", "read", "edit", "line"}]
      /\ lineAt'[p] = "edit" /\ \A q \in Procs \ {p} : lineAt'[q] = lineAt[q]
  BY <1>1, LineWent
<1>3. rbr.new /\ lineMutex # <<>> /\ Head(lineMutex) = p /\ Queued(lineMutex, Pollers)
  BY <1>1 DEF LineInv, ReadInv
<1>4. Pollers' = Pollers \ {p}
  BY <1>2 DEF Pollers
<1>5. Queued(lineMutex', Pollers')
  BY <1>1, <1>3, <1>4, Left
<1>6. ReadInv'
  BY <1>2, <1>3 DEF LineInv, ReadInv
<1>7. rbr' \in [char : Line!Keys \cup {Line!Nul}, new : BOOLEAN] /\ ~rbr'.new /\ rbr.char \in Line!Keys \cup {Line!Nul}
  BY <1>1 DEF LineInv
<1>8. Line!EachCharacterOnce'
  <2>1. typed = taken \o <<rbr.char>> /\ taken \in Seq(Line!Keys \cup {Line!Nul})
    BY <1>3 DEF LineInv, Line!EachCharacterOnce, Line!TypeOK
  <2>2. taken' = taken \o <<rbr.char>> /\ taken' \o <<>> = taken' /\ taken' \in Seq(Line!Keys \cup {Line!Nul})
    BY <1>1, <1>7, <2>1
  <2> QED
    BY <1>1, <1>7, <2>1, <2>2 DEF Line!EachCharacterOnce
<1>9. Line!TypeOK'
  <2>1. lineMutex' \in Seq(Procs) /\ rbr'.char \in Line!Keys \cup {Line!Nul} /\ rbr'.new \in BOOLEAN
    BY <1>5, <1>7 DEF Queued
  <2>2. taken' \in Seq(Line!Keys \cup {Line!Nul}) /\ char' \in [Procs -> Line!Keys \cup {Line!Nul}]
    <3> HIDE DEF Line!Keys
    <3> QED
      BY <1>1, <1>7 DEF LineInv, Line!TypeOK
  <2> QED
    BY <1>1, <1>2, <2>1, <2>2 DEF LineInv, Line!TypeOK
<1> QED
  BY <1>1, <1>5, <1>6, <1>7, <1>8, <1>9 DEF LineInv

\* gets() keeps inside its buffer: it grows before a character is put behind its end.
LEMMA LineEdit ==
  ASSUME LineInv, NEW p \in Procs, Line!Edit(p)
  PROVE LineInv'
<1>1. /\ lineAt[p] = "edit" /\ Line!Goto(p, IF char[p] = Line!Cr THEN "line" ELSE "gets")
      /\ UNCHANGED <<rbr, lineMutex, char, typed, taken, heard>>
  BY DEF Line!Edit
<1>2. /\ lineAt' \in [Procs -> {"gets", "poll", "read", "edit", "line"}]
      /\ lineAt'[p] \in {"gets", "line"} /\ \A q \in Procs \ {p} : lineAt'[q] = lineAt[q]
  BY <1>1, LineWent
<1>3. Pollers' = Pollers /\ Queued(lineMutex, Pollers) /\ ReadInv'
  BY <1>1, <1>2 DEF LineInv, Pollers, ReadInv
<1>4. /\ buf' \in [Procs -> Seq(Letters \cup {Line!Space, Line!Nul})] /\ sz' \in [Procs -> Nat]
      /\ \A q \in Procs : Len(buf'[q]) <= (IF sz'[q] = 0 THEN 0 ELSE sz'[q] + 1)
  <2> DEFINE Chars == Letters \cup {Line!Space, Line!Nul}
             b == buf[p]
  <2>1. /\ b \in Seq(Chars) /\ buf \in [Procs -> Seq(Chars)] /\ sz \in [Procs -> Nat] /\ char[p] \in Line!Keys \cup {Line!Nul}
        /\ \A q \in Procs : Len(buf[q]) <= (IF sz[q] = 0 THEN 0 ELSE sz[q] + 1)
    BY DEF LineInv, Line!TypeOK
  <2>2. Grow \in Nat \ {0}
    BY LineAssumption DEF Line!ConsoleAssumption
  <2>3. CASE char[p] = Line!Del
    <3>1. buf' = [buf EXCEPT ![p] = Line!Erased(@)] /\ sz' = sz
      BY <2>3 DEF Line!Edit
    <3>2. Line!Erased(b) \in Seq(Chars) /\ Len(Line!Erased(b)) <= Len(b)
      BY <2>1 DEF Line!Erased, Line!Front
    <3> QED
      BY <2>1, <3>1, <3>2
  <2>4. CASE char[p] # Line!Del
    <3> DEFINE c == IF char[p] = Line!Cr THEN Line!Nul ELSE char[p]
    <3>1. buf' = [buf EXCEPT ![p] = Append(@, c)] /\ sz' = [sz EXCEPT ![p] = Line!Room(p)]
      BY <2>4 DEF Line!Edit
    <3>2. c \in Chars
      BY <2>1, <2>4 DEF Line!Keys
    <3> HIDE DEF c
    <3>3. Append(b, c) \in Seq(Chars) /\ Len(Append(b, c)) = Len(b) + 1 /\ Len(b) \in Nat
      BY <2>1, <3>2
    <3>4. Line!Room(p) \in Nat /\ Line!Room(p) # 0 /\ Len(b) + 1 <= Line!Room(p) + 1
      BY <2>1, <2>2, <3>3 DEF Line!Room
    <3> QED
      BY <2>1, <3>1, <3>3, <3>4
  <2> QED
    BY <2>3, <2>4
<1>5. Line!TypeOK' /\ Line!EachCharacterOnce'
  BY <1>1, <1>2, <1>4 DEF LineInv, Line!TypeOK, Line!EachCharacterOnce
<1> QED
  BY <1>1, <1>3, <1>4, <1>5 DEF LineInv, Queued

LEMMA LineExecute ==
  ASSUME LineInv, NEW p \in Procs, Line!ExecuteCommands(p)
  PROVE LineInv'
<1>1. /\ lineAt[p] = "line" /\ Line!Goto(p, "gets") /\ buf' = [buf EXCEPT ![p] = <<>>]
      /\ sz' = [sz EXCEPT ![p] = 0] /\ UNCHANGED <<rbr, lineMutex, char, typed, taken>>
  BY DEF Line!ExecuteCommands
<1>2. /\ lineAt' \in [Procs -> {"gets", "poll", "read", "edit", "line"}]
      /\ lineAt'[p] = "gets" /\ \A q \in Procs \ {p} : lineAt'[q] = lineAt[q]
  BY <1>1, LineWent
<1>3. Pollers' = Pollers /\ Queued(lineMutex, Pollers) /\ ReadInv'
  BY <1>1, <1>2 DEF LineInv, Pollers, ReadInv
<1>4. /\ buf' \in [Procs -> Seq(Letters \cup {Line!Space, Line!Nul})] /\ sz' \in [Procs -> Nat]
      /\ \A q \in Procs : sz'[q] \in Nat /\ Len(buf'[q]) <= (IF sz'[q] = 0 THEN 0 ELSE sz'[q] + 1)
  <2> DEFINE Chars == Seq(Letters \cup {Line!Space, Line!Nul})
  <2>1. /\ buf \in [Procs -> Chars] /\ sz \in [Procs -> Nat] /\ <<>> \in Chars /\ Len(<<>>) = 0
        /\ \A q \in Procs : Len(buf[q]) <= (IF sz[q] = 0 THEN 0 ELSE sz[q] + 1)
    BY DEF LineInv, Line!TypeOK
  <2> HIDE DEF Chars
  <2>2. buf' \in [Procs -> Chars] /\ sz' \in [Procs -> Nat]
    BY <1>1, <2>1
  <2>3. /\ buf'[p] = <<>> /\ sz'[p] = 0
        /\ \A q \in Procs \ {p} : buf'[q] = buf[q] /\ sz'[q] = sz[q]
    BY <1>1, <2>1
  <2>4. \A q \in Procs : Len(buf'[q]) <= (IF sz'[q] = 0 THEN 0 ELSE sz'[q] + 1)
    BY <2>1, <2>3
  <2> QED
    BY <2>2, <2>4 DEF Chars
<1>5. Line!TypeOK' /\ Line!EachCharacterOnce'
  BY <1>1, <1>2, <1>4 DEF LineInv, Line!TypeOK, Line!EachCharacterOnce
<1> QED
  BY <1>1, <1>3, <1>4, <1>5 DEF LineInv, Queued

LEMMA LineStep == LineInv /\ [Line!Next]_lineVars => LineInv'
<1> SUFFICES ASSUME LineInv, [Line!Next]_lineVars PROVE LineInv'
  OBVIOUS
<1>1. CASE UNCHANGED lineVars
  BY <1>1 DEF lineVars, LineInv, Line!TypeOK, Line!EachCharacterOnce, Queued, Pollers, ReadInv
<1>2. CASE Line!Next
  BY <1>2, LineType, LineLock, LinePoll, LineGet, LineEdit, LineExecute DEF Line!Next
<1> QED
  BY <1>1, <1>2

----------------------------------------------------------------------------
(* Induction.                                                              *)

\* A set of numbers that is not empty has a least element.
LEMMA LeastExists ==
  ASSUME NEW T \in SUBSET Nat, T # {}
  PROVE  \E m \in T : \A k \in T : m <= k
<1>1. PICK m \in T : \A k \in T : ~ <<k, m>> \in OpToRel(<, Nat)
  BY NatLessThanWellFounded, WFMin
<1>2. \A k \in T : <<k, m>> \in Nat \X Nat
  OBVIOUS
<1>3. \A k \in T : ~ (k < m)
  BY <1>1, <1>2 DEF OpToRel
<1> QED
  BY <1>3

\* Induction up to N.
LEMMA Upward ==
  ASSUME NEW N \in Nat, NEW P, 0 \in P, \A k \in 1 .. N : k - 1 \in P => k \in P
  PROVE 0 .. N \subseteq P
<1> DEFINE T == (0 .. N) \ P
<1> SUFFICES ASSUME T # {} PROVE FALSE
  OBVIOUS
<1>0. T \in SUBSET Nat
  OBVIOUS
<1> HIDE DEF T
<1>1. PICK k \in T : \A j \in T : k <= j
  BY <1>0, LeastExists
<1> USE DEF T
<1>2. k \in 1 .. N /\ k - 1 \in 0 .. N /\ ~(k <= k - 1)
  BY <1>1
<1>3. k - 1 \in P
  BY <1>1, <1>2
<1> QED
  BY <1>2, <1>3
\* Steps can be taken one after the other.
Steps(s, g, a, N) == s[0] = a /\ \A k \in 1 .. N : s[k] = g[k][s[k - 1]]

LEMMA Repeated ==
  ASSUME NEW S, NEW a \in S, NEW N \in Nat, NEW g \in [1 .. N -> [S -> S]]
  PROVE \E s \in [0 .. N -> S] : Steps(s, g, a, N)
<1> DEFINE P == {n \in 0 .. N : \E s \in [0 .. n -> S] : s[0] = a /\ \A k \in 1 .. n : s[k] = g[k][s[k - 1]]}
<1>1. 0 \in P
  <2> DEFINE s == [k \in 0 .. 0 |-> a]
  <2>1. s \in [0 .. 0 -> S] /\ s[0] = a
    OBVIOUS
  <2>2. \A k \in 1 .. 0 : s[k] = g[k][s[k - 1]]
    OBVIOUS
  <2> HIDE DEF s
  <2> QED
    BY <2>1, <2>2
<1>2. ASSUME NEW n \in 1 .. N, n - 1 \in P PROVE n \in P
  <2>1. PICK s \in [0 .. n - 1 -> S] : s[0] = a /\ \A k \in 1 .. n - 1 : s[k] = g[k][s[k - 1]]
    BY <1>2
  <2> DEFINE t == [k \in 0 .. n |-> IF k = n THEN g[n][s[n - 1]] ELSE s[k]]
  <2>2. s[n - 1] \in S /\ g[n] \in [S -> S]
    BY <2>1
  <2>3. t \in [0 .. n -> S] /\ t[0] = a
    BY <2>1, <2>2
  <2>4. \A k \in 1 .. n : t[k] = g[k][t[k - 1]]
    BY <2>1
  <2> HIDE DEF t
  <2> QED
    BY <2>3, <2>4
<1>3. N \in P
  <2>1. 0 .. N \subseteq P
    BY <1>1, <1>2, Upward
  <2> QED
    BY <2>1
<1> QED
  BY <1>3 DEF Steps

----------------------------------------------------------------------------
(* The words of a line.                                                    *)

Text == Letters \cup {Line!Space}

\* A word of the first m characters, from i to j - 1.
IsWord(l, m, i, j) ==
  /\ i < j
  /\ \A x \in i .. j - 1 : l[x] # Line!Space
  /\ j <= m => l[j] = Line!Space

\* All of them: w words, the k-th from a[k] to e[k] - 1.
AreWords(l, m, w, a, e) ==
  /\ w \in 0 .. m /\ a \in [1 .. w -> 1 .. m] /\ e \in [1 .. w -> 1 .. m + 1]
  /\ \A k \in 1 .. w : IsWord(l, m, a[k], e[k])
  /\ \A j, k \in 1 .. w : j < k => e[j] < a[k]
  /\ \A i \in 1 .. m : l[i] # Line!Space => \E k \in 1 .. w : i \in a[k] .. e[k] - 1

\* Where they go when the k-th is put at b[k], with one character behind it.
ArePlaces(w, a, e, b) ==
  /\ b \in [1 .. w + 1 -> Nat] /\ b[1] = 1
  /\ \A k \in 1 .. w : b[k + 1] = b[k] + (e[k] - a[k]) + 1 /\ b[k] <= a[k]
  /\ \A j, k \in 1 .. w + 1 : j < k => b[j] < b[k]

BlanksOf(l, m) == {i \in 1 .. m : l[i] = Line!Space}

\* What is left of the line when the words have been put there is as many blanks as
\* there are more of them than words.
Packed(l, m, w, a, e, b) ==
  /\ AreWords(l, m, w, a, e) /\ ArePlaces(w, a, e, b)
  /\ IsFiniteSet(BlanksOf(l, m)) /\ Cardinality(BlanksOf(l, m)) + b[w + 1] = m + w + 1

LEMMA NoWords ==
  ASSUME NEW l
  PROVE \E w, a, e, b : Packed(l, 0, w, a, e, b)
<1> DEFINE a == [k \in 1 .. 0 |-> 1]
           b == [k \in 1 .. 1 |-> 1]
<1>1. AreWords(l, 0, 0, a, a)
  BY DEF AreWords
<1>2. ArePlaces(0, a, a, b) /\ b[0 + 1] = 1
  BY DEF ArePlaces
<1>3. BlanksOf(l, 0) = {}
  BY DEF BlanksOf
<1>4. IsFiniteSet(BlanksOf(l, 0)) /\ Cardinality(BlanksOf(l, 0)) + b[0 + 1] = 0 + 0 + 1
  BY <1>2, <1>3, FS_EmptySet
<1> HIDE DEF a, b
<1> QED
  BY <1>1, <1>2, <1>4 DEF Packed

\* One more blank.
LEMMA BlankAdded ==
  ASSUME NEW l, NEW m \in Nat, NEW w, NEW a, NEW e, NEW b, Packed(l, m, w, a, e, b), l[m + 1] = Line!Space
  PROVE Packed(l, m + 1, w, a, e, b)
<1>1. AreWords(l, m, w, a, e) /\ ArePlaces(w, a, e, b) /\ w \in Nat
  BY DEF Packed, AreWords
<1>2. AreWords(l, m + 1, w, a, e)
  <2>1. a \in [1 .. w -> 1 .. m + 1] /\ e \in [1 .. w -> 1 .. (m + 1) + 1]
    BY <1>1 DEF AreWords
  <2>2. \A k \in 1 .. w : IsWord(l, m + 1, a[k], e[k])
    <3> SUFFICES ASSUME NEW k \in 1 .. w PROVE IsWord(l, m + 1, a[k], e[k])
      OBVIOUS
    <3>1. IsWord(l, m, a[k], e[k]) /\ e[k] \in 1 .. m + 1
      BY <1>1 DEF AreWords
    <3> QED
      BY <3>1 DEF IsWord
  <2>3. \A i \in 1 .. m + 1 : l[i] # Line!Space => \E k \in 1 .. w : i \in a[k] .. e[k] - 1
    <3> SUFFICES ASSUME NEW i \in 1 .. m + 1, l[i] # Line!Space PROVE \E k \in 1 .. w : i \in a[k] .. e[k] - 1
      OBVIOUS
    <3>1. i \in 1 .. m
      OBVIOUS
    <3> QED
      BY <1>1, <3>1 DEF AreWords
  <2> QED
    BY <1>1, <2>1, <2>2, <2>3 DEF AreWords
<1>3. BlanksOf(l, m + 1) = BlanksOf(l, m) \cup {m + 1} /\ m + 1 \notin BlanksOf(l, m)
  BY DEF BlanksOf
<1>4. /\ IsFiniteSet(BlanksOf(l, m)) /\ Cardinality(BlanksOf(l, m)) \in Nat
      /\ Cardinality(BlanksOf(l, m)) + b[w + 1] = m + w + 1 /\ b[w + 1] \in Nat
  BY <1>1, FS_CardinalityType DEF Packed, ArePlaces
<1>5. IsFiniteSet(BlanksOf(l, m + 1)) /\ Cardinality(BlanksOf(l, m + 1)) = Cardinality(BlanksOf(l, m)) + 1
  BY <1>3, <1>4, FS_AddElement
<1> QED
  BY <1>1, <1>2, <1>4, <1>5 DEF Packed

\* One more character that is not a blank.
LEMMA SameBlanks ==
  ASSUME NEW l, NEW m \in Nat, l[m + 1] # Line!Space
  PROVE BlanksOf(l, m + 1) = BlanksOf(l, m)
BY DEF BlanksOf

\* The last word becomes longer.
LEMMA WordGrows ==
  ASSUME NEW l, NEW m \in Nat, NEW w, NEW a, NEW e, NEW b, Packed(l, m, w, a, e, b),
         l[m + 1] # Line!Space, w # 0, e[w] = m + 1
  PROVE \E f, c : Packed(l, m + 1, w, a, f, c)
<1> DEFINE f == [e EXCEPT ![w] = m + 2]
           c == [b EXCEPT ![w + 1] = @ + 1]
<1>1. AreWords(l, m, w, a, e) /\ ArePlaces(w, a, e, b) /\ w \in Nat /\ w \in 1 .. w
  BY DEF Packed, AreWords
<1>2. /\ a \in [1 .. w -> 1 .. m + 1] /\ e \in [1 .. w -> 1 .. m + 1] /\ f \in [1 .. w -> 1 .. (m + 1) + 1]
      /\ \A k \in 1 .. w : f[k] = IF k = w THEN m + 2 ELSE e[k]
  BY <1>1 DEF AreWords
<1>3. /\ c \in [1 .. w + 1 -> Nat] /\ \A k \in 1 .. w + 1 : c[k] = IF k = w + 1 THEN b[k] + 1 ELSE b[k]
      /\ \A k \in 1 .. w + 1 : b[k] \in Nat
  BY <1>1 DEF ArePlaces
<1> HIDE DEF f, c
<1>4. \A k \in 1 .. w : k # w => f[k] = e[k] /\ e[k] < a[w]
  BY <1>1, <1>2 DEF AreWords
<1>5. \A k \in 1 .. w : IsWord(l, m + 1, a[k], f[k])
  <2> SUFFICES ASSUME NEW k \in 1 .. w PROVE IsWord(l, m + 1, a[k], f[k])
    OBVIOUS
  <2>1. IsWord(l, m, a[k], e[k]) /\ a[k] \in 1 .. m /\ e[k] \in 1 .. m + 1
    BY <1>1 DEF AreWords
  <2>2. CASE k = w
    <3>1. f[k] = m + 2 /\ e[k] = m + 1
      BY <1>2, <2>2
    <3>2. \A x \in a[k] .. f[k] - 1 : x = m + 1 \/ x \in a[k] .. e[k] - 1
      BY <2>1, <3>1
    <3> QED
      BY <2>1, <3>1, <3>2 DEF IsWord
  <2>3. CASE k # w
    <3>1. f[k] = e[k] /\ e[k] < a[w] /\ a[w] \in 1 .. m
      BY <1>1, <1>4, <2>3 DEF AreWords
    <3> QED
      BY <2>1, <3>1 DEF IsWord
  <2> QED
    BY <2>2, <2>3
<1>6. \A j, k \in 1 .. w : j < k => f[j] < a[k]
  BY <1>1, <1>2 DEF AreWords
<1>7. \A i \in 1 .. m + 1 : l[i] # Line!Space => \E k \in 1 .. w : i \in a[k] .. f[k] - 1
  <2> SUFFICES ASSUME NEW i \in 1 .. m + 1, l[i] # Line!Space PROVE \E k \in 1 .. w : i \in a[k] .. f[k] - 1
    OBVIOUS
  <2>1. CASE i = m + 1
    <3>1. f[w] = m + 2 /\ a[w] \in 1 .. m
      BY <1>1, <1>2 DEF AreWords
    <3> QED
      BY <1>1, <2>1, <3>1
  <2>2. CASE i # m + 1
    <3>1. PICK k \in 1 .. w : i \in a[k] .. e[k] - 1
      BY <1>1, <2>2 DEF AreWords
    <3>2. e[k] <= f[k] /\ e[k] \in Int /\ f[k] \in Int /\ a[k] \in Int
      BY <1>1, <1>2
    <3>3. i \in a[k] .. f[k] - 1
      BY <3>1, <3>2
    <3> QED
      BY <3>3
  <2> QED
    BY <2>1, <2>2
<1>8. AreWords(l, m + 1, w, a, f)
  <2>1. w \in 0 .. m + 1
    BY <1>1 DEF AreWords
  <2> QED
    BY <1>2, <1>5, <1>6, <1>7, <2>1 DEF AreWords
<1>9. ArePlaces(w, a, f, c)
  <2>1. \A k \in 1 .. w : c[k + 1] = c[k] + (f[k] - a[k]) + 1 /\ c[k] <= a[k]
    <3> SUFFICES ASSUME NEW k \in 1 .. w PROVE c[k + 1] = c[k] + (f[k] - a[k]) + 1 /\ c[k] <= a[k]
      OBVIOUS
    <3>1. b[k + 1] = b[k] + (e[k] - a[k]) + 1 /\ b[k] <= a[k]
      BY <1>1 DEF ArePlaces
    <3>2. k # w + 1 /\ k + 1 \in 1 .. w + 1 /\ k \in 1 .. w + 1 /\ (k + 1 = w + 1 <=> k = w)
      BY <1>1
    <3>3. a[k] \in 1 .. m + 1 /\ e[k] \in 1 .. m + 1 /\ b[k] \in Nat /\ b[k + 1] \in Nat
      BY <1>2, <1>3, <3>2
    <3>4. c[k] = b[k] /\ c[k + 1] = IF k = w THEN b[k + 1] + 1 ELSE b[k + 1]
      BY <1>3, <3>2
    <3>5. f[k] = IF k = w THEN e[k] + 1 ELSE e[k]
      BY <1>2
    <3> QED
      BY <3>1, <3>3, <3>4, <3>5
  <2>2. \A j, k \in 1 .. w + 1 : j < k => c[j] < c[k]
    <3> SUFFICES ASSUME NEW j \in 1 .. w + 1, NEW k \in 1 .. w + 1, j < k PROVE c[j] < c[k]
      OBVIOUS
    <3>1. b[j] < b[k] /\ b[j] \in Nat /\ b[k] \in Nat /\ j # w + 1
      BY <1>1, <1>3 DEF ArePlaces
    <3>2. c[j] = b[j] /\ c[k] >= b[k] /\ c[k] \in Nat
      BY <1>3, <3>1
    <3> QED
      BY <3>1, <3>2
  <2>3. c[1] = 1
    BY <1>1, <1>3 DEF ArePlaces
  <2> QED
    BY <1>3, <2>1, <2>2, <2>3 DEF ArePlaces
<1>10. c[w + 1] = b[w + 1] + 1 /\ b[w + 1] \in Nat
  BY <1>1, <1>3
<1>11. /\ IsFiniteSet(BlanksOf(l, m + 1))
       /\ Cardinality(BlanksOf(l, m + 1)) + c[w + 1] = (m + 1) + w + 1
  <2>1. /\ IsFiniteSet(BlanksOf(l, m)) /\ Cardinality(BlanksOf(l, m)) \in Nat
        /\ Cardinality(BlanksOf(l, m)) + b[w + 1] = m + w + 1
    BY FS_CardinalityType DEF Packed
  <2> QED
    BY <1>1, <1>10, <2>1, SameBlanks
<1> QED
  BY <1>8, <1>9, <1>11 DEF Packed

\* A word begins.
LEMMA WordAdded ==
  ASSUME NEW l, NEW m \in Nat, NEW w, NEW a, NEW e, NEW b, Packed(l, m, w, a, e, b),
         l[m + 1] # Line!Space, w # 0 => e[w] # m + 1
  PROVE \E d, f, c : Packed(l, m + 1, w + 1, d, f, c)
<1> DEFINE v == w + 1
           d == [k \in 1 .. v |-> IF k = v THEN m + 1 ELSE a[k]]
           f == [k \in 1 .. v |-> IF k = v THEN m + 2 ELSE e[k]]
           c == [k \in 1 .. v + 1 |-> IF k = v + 1 THEN b[v] + 2 ELSE b[k]]
<1>1. AreWords(l, m, w, a, e) /\ ArePlaces(w, a, e, b) /\ w \in Nat
  BY DEF Packed, AreWords
<1>2. a \in [1 .. w -> 1 .. m] /\ e \in [1 .. w -> 1 .. m + 1] /\ b \in [1 .. v -> Nat]
  BY <1>1 DEF AreWords, ArePlaces
<1>3. d \in [1 .. v -> 1 .. m + 1] /\ d[v] = m + 1 /\ \A k \in 1 .. w : d[k] = a[k]
  BY <1>1, <1>2
<1>4. f \in [1 .. v -> 1 .. (m + 1) + 1] /\ f[v] = m + 2 /\ \A k \in 1 .. w : f[k] = e[k]
  BY <1>1, <1>2
<1>5. c \in [1 .. v + 1 -> Nat] /\ c[v + 1] = b[v] + 2 /\ \A k \in 1 .. v : c[k] = b[k]
  BY <1>1, <1>2
<1>6. v \in Nat /\ v \in 1 .. v /\ v = w + 1 /\ \A k \in 1 .. v : k # v => k \in 1 .. w
  BY <1>1
<1> HIDE DEF v, d, f, c
<1>7. \A k \in 1 .. w : e[k] < m + 1
  <2> SUFFICES ASSUME NEW k \in 1 .. w PROVE e[k] < m + 1
    OBVIOUS
  <2>1. w \in 1 .. w /\ e[w] < m + 1
    BY <1>1, <1>2
  <2>2. k # w => e[k] < a[w] /\ a[w] \in 1 .. m /\ e[k] \in Nat
    BY <1>1, <1>2, <2>1 DEF AreWords
  <2> QED
    BY <2>1, <2>2
<1>8. \A k \in 1 .. v : IsWord(l, m + 1, d[k], f[k])
  <2>1. IsWord(l, m + 1, d[v], f[v])
    <3>1. \A x \in m + 1 .. (m + 2) - 1 : x = m + 1
      OBVIOUS
    <3> QED
      BY <1>3, <1>4, <3>1 DEF IsWord
  <2>2. ASSUME NEW k \in 1 .. w PROVE IsWord(l, m + 1, d[k], f[k])
    <3>1. IsWord(l, m, a[k], e[k]) /\ e[k] <= m /\ e[k] \in Int
      BY <1>1, <1>2, <1>7 DEF AreWords
    <3> QED
      BY <1>3, <1>4, <3>1 DEF IsWord
  <2> QED
    BY <1>6, <2>1, <2>2
<1>9. \A j, k \in 1 .. v : j < k => f[j] < d[k]
  <2> SUFFICES ASSUME NEW j \in 1 .. v, NEW k \in 1 .. v, j < k PROVE f[j] < d[k]
    OBVIOUS
  <2>1. j \in 1 .. w /\ f[j] = e[j]
    BY <1>4, <1>6
  <2>2. CASE k = v
    BY <1>3, <1>7, <2>1, <2>2
  <2>3. CASE k # v
    BY <1>1, <1>3, <1>6, <2>1, <2>3 DEF AreWords
  <2> QED
    BY <2>2, <2>3
<1>10. \A i \in 1 .. m + 1 : l[i] # Line!Space => \E k \in 1 .. v : i \in d[k] .. f[k] - 1
  <2> SUFFICES ASSUME NEW i \in 1 .. m + 1, l[i] # Line!Space PROVE \E k \in 1 .. v : i \in d[k] .. f[k] - 1
    OBVIOUS
  <2>1. CASE i = m + 1
    BY <1>3, <1>4, <1>6, <2>1
  <2>2. CASE i # m + 1
    <3>1. PICK k \in 1 .. w : i \in a[k] .. e[k] - 1
      BY <1>1, <2>2 DEF AreWords
    <3>2. k \in 1 .. v
      BY <1>1, <1>6
    <3>3. i \in d[k] .. f[k] - 1
      BY <1>3, <1>4, <3>1
    <3> QED
      BY <3>2, <3>3
  <2> QED
    BY <2>1, <2>2
<1>11. AreWords(l, m + 1, v, d, f)
  <2>1. v \in 0 .. m + 1
    BY <1>1, <1>6 DEF AreWords
  <2> QED
    BY <1>3, <1>4, <1>8, <1>9, <1>10, <2>1 DEF AreWords
<1>12. b[v] <= m + 1
  <2>1. CASE w = 0
    BY <1>1, <1>6, <2>1 DEF ArePlaces
  <2>2. CASE w # 0
    <3>1. w \in 1 .. w /\ v = w + 1
      BY <1>1, <1>6, <2>2
    <3>2. b[v] = b[w] + (e[w] - a[w]) + 1 /\ b[w] <= a[w]
      BY <1>1, <3>1 DEF ArePlaces
    <3>3. e[w] < m + 1 /\ e[w] \in Int /\ a[w] \in Int /\ b[w] \in Int
      BY <1>2, <1>6, <1>7, <3>1
    <3> QED
      BY <3>2, <3>3
  <2> QED
    BY <2>1, <2>2
<1>13. ArePlaces(v, d, f, c)
  <2>1. \A k \in 1 .. v : c[k + 1] = c[k] + (f[k] - d[k]) + 1 /\ c[k] <= d[k]
    <3>1. c[v + 1] = c[v] + (f[v] - d[v]) + 1 /\ c[v] <= d[v]
      BY <1>2, <1>3, <1>4, <1>5, <1>6, <1>12
    <3>2. ASSUME NEW k \in 1 .. w PROVE c[k + 1] = c[k] + (f[k] - d[k]) + 1 /\ c[k] <= d[k]
      <4>1. k \in 1 .. v /\ k + 1 \in 1 .. v
        BY <1>1, <1>6
      <4> QED
        BY <1>1, <1>3, <1>4, <1>5, <4>1 DEF ArePlaces
    <3> QED
      BY <1>6, <3>1, <3>2
  <2>2. \A j, k \in 1 .. v + 1 : j < k => c[j] < c[k]
    <3> SUFFICES ASSUME NEW j \in 1 .. v + 1, NEW k \in 1 .. v + 1, j < k PROVE c[j] < c[k]
      OBVIOUS
    <3>1. j \in 1 .. v /\ c[j] = b[j] /\ b[j] \in Nat
      BY <1>2, <1>5, <1>6
    <3>2. \A i, h \in 1 .. v : i < h => b[i] < b[h]
      BY <1>1, <1>6 DEF ArePlaces
    <3>3. CASE k = v + 1
      <4>1. b[j] <= b[v] /\ b[v] \in Nat
        BY <1>2, <1>6, <3>1, <3>2
      <4> QED
        BY <1>5, <3>1, <3>3, <4>1
    <3>4. CASE k # v + 1
      <4>1. k \in 1 .. v
        BY <1>6, <3>4
      <4> QED
        BY <1>5, <3>1, <3>2, <4>1
    <3> QED
      BY <3>3, <3>4
  <2>3. c[1] = 1
    BY <1>1, <1>5, <1>6 DEF ArePlaces
  <2> QED
    BY <1>5, <2>1, <2>2, <2>3 DEF ArePlaces
<1>14. /\ IsFiniteSet(BlanksOf(l, m + 1))
       /\ Cardinality(BlanksOf(l, m + 1)) + c[v + 1] = (m + 1) + v + 1
  <2>1. /\ IsFiniteSet(BlanksOf(l, m)) /\ Cardinality(BlanksOf(l, m)) \in Nat
        /\ Cardinality(BlanksOf(l, m)) + b[v] = m + w + 1
    BY <1>6, FS_CardinalityType DEF Packed
  <2>2. b[v] \in Nat /\ BlanksOf(l, m + 1) = BlanksOf(l, m)
    BY <1>2, <1>6, SameBlanks
  <2>3. v = w + 1 /\ w \in Nat /\ c[v + 1] = b[v] + 2
    BY <1>1, <1>5, <1>6
  <2>4. \A x \in Nat : x + b[v] = m + w + 1 => x + (b[v] + 2) = (m + 1) + v + 1
    BY <2>2, <2>3
  <2> QED
    BY <2>1, <2>2, <2>3, <2>4
<1> QED
  BY <1>6, <1>11, <1>13, <1>14 DEF Packed

\* Every line has words, and places for them.
LEMMA WordsExist ==
  ASSUME NEW l, NEW m \in Nat
  PROVE \E w, a, e, b : Packed(l, m, w, a, e, b)
<1> DEFINE P == {i \in 0 .. m : \E w, a, e, b : Packed(l, i, w, a, e, b)}
<1>1. 0 \in P
  BY NoWords
<1>2. ASSUME NEW i \in 1 .. m, i - 1 \in P PROVE i \in P
  <2>1. PICK w, a, e, b : Packed(l, i - 1, w, a, e, b)
    BY <1>2
  <2>2. i - 1 \in Nat /\ (i - 1) + 1 = i
    OBVIOUS
  <2>3. CASE l[i] = Line!Space
    <3>1. Packed(l, i, w, a, e, b)
      BY <2>1, <2>2, <2>3, BlankAdded
    <3> QED
      BY <3>1
  <2>4. CASE l[i] # Line!Space /\ w # 0 /\ e[w] = i
    <3>1. \E f, c : Packed(l, i, w, a, f, c)
      BY <2>1, <2>2, <2>4, WordGrows
    <3> QED
      BY <3>1
  <2>5. CASE l[i] # Line!Space /\ ~(w # 0 /\ e[w] = i)
    <3>1. \E d, f, c : Packed(l, i, w + 1, d, f, c)
      BY <2>1, <2>2, <2>5, WordAdded
    <3> QED
      BY <3>1
  <2> QED
    BY <2>3, <2>4, <2>5
<1>3. 0 .. m \subseteq P
  <2> HIDE DEF P
  <2> QED
    BY <1>1, <1>2, Upward
<1> QED
  BY <1>3

\* The operator of the standard module, as Console sees it.
LEMMA SameCardinality ==
  ASSUME NEW S
  PROVE Line!Cardinality(S) = Cardinality(S)
BY DEF Line!Cardinality, Cardinality

\* The first n of a growing list are n.
Growing(w, a) == w \in Nat /\ \A k \in 1 .. w : a[k] \in Nat /\ \A j \in 1 .. w : j < k => a[j] < a[k]
FirstOf(a, n) == {a[k] : k \in 1 .. n}

LEMMA CountFirst ==
  ASSUME NEW w, NEW a, Growing(w, a), NEW n \in 0 .. w
  PROVE Cardinality(FirstOf(a, n)) = n
<1> DEFINE T == {a[k] : k \in 1 .. n}
           f == [k \in 1 .. n |-> a[k]]
<1>0. w \in Nat /\ \A k \in 1 .. w : a[k] \in Nat /\ \A j \in 1 .. w : j < k => a[j] < a[k]
  BY DEF Growing
<1>1. f \in Bijection(1 .. n, T)
  <2>1. f \in [1 .. n -> T] /\ \A t \in T : \E k \in 1 .. n : f[k] = t
    OBVIOUS
  <2>2. \A j, k \in 1 .. n : j # k => f[j] # f[k]
    <3> SUFFICES ASSUME NEW j \in 1 .. n, NEW k \in 1 .. n, j # k PROVE a[j] # a[k]
      OBVIOUS
    <3>1. j \in 1 .. w /\ k \in 1 .. w /\ (j < k \/ k < j)
      BY <1>0
    <3>2. a[j] < a[k] \/ a[k] < a[j]
      BY <1>0, <3>1
    <3>3. a[j] \in Nat /\ a[k] \in Nat
      BY <1>0, <3>1
    <3> QED
      BY <3>2, <3>3
  <2> HIDE DEF f, T
  <2> QED
    BY <2>1, <2>2 DEF Bijection, Injection, Surjection, IsInjective
<1>2. IsFiniteSet(1 .. n) /\ Cardinality(1 .. n) = n
  BY <1>0, FS_Interval
<1>3. ExistsBijection(1 .. n, T)
  BY <1>1 DEF ExistsBijection
<1> HIDE DEF T
<1>4. IsFiniteSet(T) /\ Cardinality(T) = n
  BY <1>2, <1>3, FS_Bijection
<1> QED
  BY <1>4 DEF T, FirstOf

\* Words(l) cuts these out.
LEMMA WordsAre ==
  ASSUME NEW l \in Seq(Text), NEW w, NEW a, NEW e, AreWords(l, Len(l), w, a, e)
  PROVE Line!Words(l) = [k \in 1 .. w |-> SubSeq(l, a[k], e[k] - 1)]
<1> DEFINE m == Len(l)
           Starts == {i \in DOMAIN l : l[i] # Line!Space /\ (i = 1 \/ l[i - 1] = Line!Space)}
           Upto(i) == {j \in i .. Len(l) : \A k \in i .. j : l[k] # Line!Space}
<1>1. m \in Nat /\ DOMAIN l = 1 .. m /\ w \in Nat
  BY DEF AreWords
<1>2. /\ \A k \in 1 .. w : a[k] \in 1 .. m /\ e[k] \in 1 .. m + 1 /\ IsWord(l, m, a[k], e[k])
      /\ \A j, k \in 1 .. w : j < k => e[j] < a[k]
      /\ \A i \in 1 .. m : l[i] # Line!Space => \E k \in 1 .. w : i \in a[k] .. e[k] - 1
  BY DEF AreWords
<1> HIDE DEF m
<1>3. ASSUME NEW k \in 1 .. w PROVE a[k] \in Starts
  <2>1. a[k] \in 1 .. m /\ a[k] < e[k] /\ e[k] \in Nat /\ a[k] \in a[k] .. e[k] - 1
    BY <1>2 DEF IsWord
  <2>2. l[a[k]] # Line!Space
    BY <1>2, <2>1 DEF IsWord
  <2>3. ASSUME a[k] # 1, l[a[k] - 1] # Line!Space PROVE FALSE
    <3>1. a[k] - 1 \in 1 .. m
      BY <1>1, <2>1, <2>3
    <3>2. PICK j \in 1 .. w : a[k] - 1 \in a[j] .. e[j] - 1
      BY <1>2, <2>3, <3>1
    <3>3. a[j] \in Nat /\ e[j] \in Nat /\ a[j] < a[k] /\ a[k] <= e[j] /\ j # k
      BY <1>2, <2>1, <3>2
    <3>4. j < k \/ k < j
      BY <3>3
    <3>5. e[j] < a[k] \/ e[k] < a[j]
      BY <1>2, <3>4
    <3> QED
      BY <2>1, <3>3, <3>5
  <2> QED
    BY <1>1, <2>1, <2>2, <2>3
<1>4. ASSUME NEW i \in Starts PROVE \E k \in 1 .. w : a[k] = i
  <2>1. i \in 1 .. m /\ l[i] # Line!Space /\ (i = 1 \/ l[i - 1] = Line!Space)
    BY <1>1
  <2>2. PICK k \in 1 .. w : i \in a[k] .. e[k] - 1
    BY <1>2, <2>1
  <2>3. a[k] \in Nat /\ a[k] >= 1 /\ e[k] \in Nat /\ IsWord(l, m, a[k], e[k])
    BY <1>2
  <2>4. ASSUME a[k] # i PROVE FALSE
    <3>1. i - 1 \in a[k] .. e[k] - 1 /\ i # 1
      BY <2>1, <2>2, <2>3, <2>4
    <3> QED
      BY <2>1, <2>3, <3>1 DEF IsWord
  <2> QED
    BY <2>4
<1>5. \A j, k \in 1 .. w : j < k => a[j] < a[k]
  <2> SUFFICES ASSUME NEW j \in 1 .. w, NEW k \in 1 .. w, j < k PROVE a[j] < a[k]
    OBVIOUS
  <2>1. a[j] \in Nat /\ e[j] \in Nat /\ a[k] \in Nat /\ a[j] < e[j] /\ e[j] < a[k]
    BY <1>2 DEF IsWord
  <2> QED
    BY <2>1
<1>6. \A k \in 1 .. w : a[k] \in Nat
  BY <1>2
<1>7. Starts = FirstOf(a, w)
  <2> HIDE DEF Starts
  <2> QED
    BY <1>3, <1>4 DEF FirstOf
<1> HIDE DEF Starts
<1>8. Growing(w, a)
  BY <1>1, <1>5, <1>6 DEF Growing
<1>9. \A y \in Starts : \E k \in 1 .. w : y = a[k]
  BY <1>7 DEF FirstOf
<1>10. Cardinality(Starts) = w
  <2>1. w \in 0 .. w
    BY <1>1
  <2> QED
    BY <1>7, <1>8, <2>1, CountFirst
<1>11. ASSUME NEW k \in 1 .. w PROVE Cardinality({y \in Starts : y <= a[k]}) = k
  <2>1. ASSUME NEW y \in Starts PROVE y <= a[k] <=> \E j \in 1 .. k : y = a[j]
    <3>1. PICK i \in 1 .. w : y = a[i]
      BY <1>9
    <3>2. a[i] \in Nat /\ a[k] \in Nat
      BY <1>6
    <3>3. CASE i <= k
      <4>1. i \in 1 .. k /\ (i = k \/ i < k)
        BY <3>3
      <4> QED
        BY <1>5, <3>1, <3>2, <4>1
    <3>4. CASE k < i
      <4>1. a[k] < a[i]
        BY <1>5, <3>4
      <4>2. \A j \in 1 .. k : a[j] # a[i]
        <5> SUFFICES ASSUME NEW j \in 1 .. k PROVE a[j] # a[i]
          OBVIOUS
        <5>1. j \in 1 .. w /\ j < i
          BY <1>1, <3>4
        <5> QED
          BY <1>5, <1>6, <5>1
      <4> QED
        BY <3>1, <3>2, <4>1, <4>2
    <3> QED
      BY <3>3, <3>4
  <2>2. \A j \in 1 .. k : a[j] \in Starts
    BY <1>1, <1>3
  <2>3. {y \in Starts : y <= a[k]} = FirstOf(a, k)
    BY <2>1, <2>2 DEF FirstOf
  <2>4. k \in 0 .. w
    BY <1>1
  <2> QED
    BY <1>8, <2>3, <2>4, CountFirst
<1>12. ASSUME NEW k \in 1 .. w
       PROVE a[k] = CHOOSE x \in Starts : Line!Cardinality({y \in Starts : y <= x}) = k
  <2>1. a[k] \in Starts /\ Line!Cardinality({y \in Starts : y <= a[k]}) = k
    BY <1>3, <1>11, SameCardinality
  <2>2. ASSUME NEW x \in Starts, Line!Cardinality({y \in Starts : y <= x}) = k PROVE x = a[k]
    <3>1. PICK i \in 1 .. w : x = a[i]
      BY <1>9
    <3>2. i = k
      BY <1>11, <2>2, <3>1, SameCardinality
    <3> QED
      BY <3>1, <3>2
  <2> QED
    BY <2>1, <2>2
<1>13. ASSUME NEW k \in 1 .. w PROVE Line!Max(Upto(a[k])) = e[k] - 1
  <2>1. a[k] \in 1 .. m /\ a[k] < e[k] /\ e[k] \in 1 .. m + 1
    BY <1>2 DEF IsWord
  <2>2. \A x \in a[k] .. e[k] - 1 : l[x] # Line!Space
    BY <1>2 DEF IsWord
  <2>3. e[k] - 1 \in Upto(a[k])
    BY <2>1, <2>2 DEF m
  <2>4. ASSUME NEW j \in Upto(a[k]) PROVE j <= e[k] - 1
    <3>1. j \in a[k] .. m /\ \A x \in a[k] .. j : l[x] # Line!Space
      BY DEF m
    <3>2. ASSUME j >= e[k] PROVE FALSE
      <4>1. e[k] <= m /\ e[k] \in a[k] .. j
        BY <1>1, <2>1, <3>1, <3>2
      <4>2. l[e[k]] = Line!Space
        BY <1>2, <4>1 DEF IsWord
      <4> QED
        BY <3>1, <4>1, <4>2
    <3> QED
      BY <2>1, <3>1, <3>2
  <2>5. \A j \in Upto(a[k]) : j \in Int
    OBVIOUS
  <2> HIDE DEF Upto
  <2>6. \A x \in Upto(a[k]) : (\A y \in Upto(a[k]) : x >= y) => x = e[k] - 1
    BY <2>1, <2>3, <2>4, <2>5
  <2> QED
    BY <2>1, <2>3, <2>4, <2>5, <2>6 DEF Line!Max
<1>14. Line!Words(l) = [n \in 1 .. Line!Cardinality(Starts) |->
                          SubSeq(l, CHOOSE x \in Starts : Line!Cardinality({y \in Starts : y <= x}) = n,
                                 Line!Max(Upto(CHOOSE x \in Starts : Line!Cardinality({y \in Starts : y <= x}) = n)))]
  BY DEF Line!Words, Starts
<1> HIDE DEF Upto
<1>15. \A n \in 1 .. w :
         SubSeq(l, CHOOSE x \in Starts : Line!Cardinality({y \in Starts : y <= x}) = n,
                Line!Max(Upto(CHOOSE x \in Starts : Line!Cardinality({y \in Starts : y <= x}) = n)))
           = SubSeq(l, a[n], e[n] - 1)
  BY <1>12, <1>13
<1>16. Line!Cardinality(Starts) = w
  BY <1>10, SameCardinality
<1> QED
  BY <1>14, <1>15, <1>16

----------------------------------------------------------------------------
(* Cutting.                                                                *)

Chars == Letters \cup {Line!Space, Line!Nul}

LEMMA CharsAre ==
  /\ Line!Space \notin Letters /\ Line!Nul \notin Letters /\ Line!Space # Line!Nul
  /\ Line!Nul \notin Text /\ Text \subseteq Chars /\ Line!Nul \in Chars /\ Line!Space \in Chars
<1>1. Letters \cap {Line!Space, Line!Del, Line!Cr, Line!Nul} = {}
  BY LineAssumption DEF Line!ConsoleAssumption
<1>2. Line!Space # Line!Nul
  BY DEF Line!Space, Line!Nul
<1> QED
  BY <1>1, <1>2 DEF Text, Chars

LEMMA MinIs ==
  ASSUME NEW S \in SUBSET Int, NEW x \in S, \A y \in S : x <= y
  PROVE Line!Min(S) = x
<1>1. \A z \in S : (\A y \in S : z <= y) => z = x
  OBVIOUS
<1> QED
  BY <1>1 DEF Line!Min

\* Where the search for one of some characters ends, and that for another one.
LEMMA AtIs ==
  ASSUME NEW t, NEW n \in Nat, Len(t) = n, NEW i \in Nat, NEW C, NEW j \in i .. n,
         t[j] \in C, \A x \in i .. j - 1 : t[x] \notin C
  PROVE Line!At(t, i, C) = j
<1> DEFINE S == {k \in i .. Len(t) : t[k] \in C}
<1>1. S \in SUBSET Int /\ j \in S
  OBVIOUS
<1>2. ASSUME NEW y \in S PROVE j <= y
  <2>1. y \in i .. n /\ t[y] \in C
    OBVIOUS
  <2>2. ~ (y \in i .. j - 1)
    BY <2>1
  <2> QED
    BY <2>1, <2>2
<1>3. Line!At(t, i, C) = Line!Min(S)
  BY DEF Line!At
<1> HIDE DEF S
<1> QED
  BY <1>1, <1>2, <1>3, MinIs

LEMMA PastIs ==
  ASSUME NEW t, NEW n \in Nat, Len(t) = n, NEW i \in Nat, NEW C, NEW j \in i .. n,
         t[j] \notin C, \A x \in i .. j - 1 : t[x] \in C
  PROVE Line!Past(t, i, C) = j
<1> DEFINE S == {k \in i .. Len(t) : t[k] \notin C}
<1>1. S \in SUBSET Int /\ j \in S
  OBVIOUS
<1>2. ASSUME NEW y \in S PROVE j <= y
  <2>1. y \in i .. n /\ t[y] \notin C
    OBVIOUS
  <2>2. ~ (y \in i .. j - 1)
    BY <2>1
  <2> QED
    BY <2>1, <2>2
<1>3. Line!Past(t, i, C) = Line!Min(S)
  BY DEF Line!Past
<1> HIDE DEF S
<1> QED
  BY <1>1, <1>2, <1>3, MinIs

\* Word j is in its place, with its terminator.
InPlace(l, a, e, b, j, t) ==
  /\ \A d \in 0 .. e[j] - a[j] - 1 : t[b[j] + d] = l[a[j] + d]
  /\ t[b[j] + (e[j] - a[j])] = Line!Nul

\* What is behind the first k words: blanks up to where the k-th was, and then the line.
EndOf(e, k) == IF k = 0 THEN 0 ELSE e[k]
Behind(l, e, k, i) ==
  IF i < EndOf(e, k) THEN Line!Space ELSE IF i = Len(l) + 1 THEN Line!Nul ELSE l[i]

\* The line when k words have been cut off.
Trimmed(l, a, e, b, k, t) ==
  /\ t \in Seq(Chars) /\ Len(t) = Len(l) + 1
  /\ \A j \in 1 .. k : InPlace(l, a, e, b, j, t)
  /\ \A i \in b[k + 1] .. Len(l) + 1 : t[i] = Behind(l, e, k, i)

\* What a packed line says about a word and the gap in front of it.
LEMMA WordIs ==
  ASSUME NEW l \in Seq(Text), NEW w, NEW a, NEW e, NEW b, Packed(l, Len(l), w, a, e, b), NEW k \in 1 .. w
  PROVE /\ w \in Nat /\ k \in Nat /\ a[k] \in 1 .. Len(l) /\ e[k] \in 1 .. Len(l) + 1 /\ a[k] < e[k]
        /\ b[k] \in Nat /\ 1 <= b[k] /\ b[k] <= a[k] /\ b[k + 1] = b[k] + (e[k] - a[k]) + 1
        /\ \A x \in a[k] .. e[k] - 1 : x \in DOMAIN l /\ l[x] \in Letters
        /\ e[k] <= Len(l) => l[e[k]] = Line!Space
        /\ \A j \in 1 .. k : b[j] \in Nat /\ 1 <= b[j] /\ b[j + 1] \in Nat /\ b[j + 1] <= b[k + 1]
<1>1. AreWords(l, Len(l), w, a, e) /\ ArePlaces(w, a, e, b) /\ Len(l) \in Nat
  BY DEF Packed
<1>2. w \in Nat /\ k \in Nat /\ a[k] \in 1 .. Len(l) /\ e[k] \in 1 .. Len(l) + 1 /\ IsWord(l, Len(l), a[k], e[k])
  BY <1>1 DEF AreWords
<1>3. \A j \in 1 .. w + 1 : b[j] \in Nat
  BY <1>1 DEF ArePlaces
<1>4. b[k] <= a[k] /\ b[k + 1] = b[k] + (e[k] - a[k]) + 1
  BY <1>1 DEF ArePlaces
<1>5. \A j \in 1 .. w + 1 : 1 <= b[j]
  <2> SUFFICES ASSUME NEW j \in 1 .. w + 1 PROVE 1 <= b[j]
    OBVIOUS
  <2>1. b[1] = 1 /\ (j # 1 => b[1] < b[j])
    BY <1>1, <1>2 DEF ArePlaces
  <2> QED
    BY <1>3, <2>1
<1>6. \A x \in a[k] .. e[k] - 1 : x \in DOMAIN l /\ l[x] \in Letters
  <2> SUFFICES ASSUME NEW x \in a[k] .. e[k] - 1 PROVE x \in DOMAIN l /\ l[x] \in Letters
    OBVIOUS
  <2>1. x \in 1 .. Len(l) /\ l[x] # Line!Space
    BY <1>1, <1>2 DEF IsWord
  <2> QED
    BY <2>1 DEF Text
<1>7. ASSUME NEW j \in 1 .. k PROVE b[j] \in Nat /\ 1 <= b[j] /\ b[j + 1] \in Nat /\ b[j + 1] <= b[k + 1]
  <2>1. j \in 1 .. w + 1 /\ j + 1 \in 1 .. w + 1 /\ k + 1 \in 1 .. w + 1 /\ (j + 1 = k + 1 \/ j + 1 < k + 1)
    BY <1>2
  <2>2. j + 1 < k + 1 => b[j + 1] < b[k + 1]
    BY <1>1, <2>1 DEF ArePlaces
  <2> QED
    BY <1>3, <1>5, <2>1, <2>2
<1>8. k \in 1 .. w + 1
  BY <1>2
<1> QED
  BY <1>2, <1>3, <1>4, <1>5, <1>6, <1>7, <1>8 DEF IsWord

\* Between two words, before the first and behind the last there are blanks.
LEMMA GapIs ==
  ASSUME NEW l \in Seq(Text), NEW w, NEW a, NEW e, NEW b, Packed(l, Len(l), w, a, e, b), NEW k \in 0 .. w,
         NEW x \in 1 .. Len(l), EndOf(e, k) <= x, k < w => x < a[k + 1]
  PROVE l[x] = Line!Space
<1> SUFFICES ASSUME l[x] # Line!Space PROVE FALSE
  OBVIOUS
<1>1. AreWords(l, Len(l), w, a, e) /\ Len(l) \in Nat /\ w \in Nat
  BY DEF Packed, AreWords
<1>2. PICK j \in 1 .. w : x \in a[j] .. e[j] - 1
  BY <1>1 DEF AreWords
<1>3. a[j] \in Nat /\ e[j] \in Nat /\ a[j] <= x /\ x < e[j] /\ j \in Nat
  BY <1>1, <1>2, WordIs
<1>4. CASE j <= k
  <2>1. k \in 1 .. w /\ EndOf(e, k) = e[k] /\ e[k] <= x
    BY <1>1, <1>3, <1>4 DEF EndOf
  <2>2. a[k] \in Nat /\ e[k] \in Nat /\ a[k] < e[k]
    BY <2>1, WordIs
  <2>3. j # k => e[j] < a[k]
    BY <1>1, <1>4, <2>1 DEF AreWords
  <2> QED
    BY <1>3, <2>1, <2>2, <2>3
<1>5. CASE k < j
  <2>1. k + 1 \in 1 .. w /\ x < a[k + 1]
    BY <1>1, <1>3, <1>5
  <2>2. a[k + 1] \in Nat /\ e[k + 1] \in Nat /\ a[k + 1] < e[k + 1]
    BY <2>1, WordIs
  <2>3. j # k + 1 => e[k + 1] < a[j]
    BY <1>1, <1>3, <1>5, <2>1 DEF AreWords
  <2> QED
    BY <1>3, <2>1, <2>2, <2>3
<1> QED
  BY <1>3, <1>4, <1>5

\* A line whose first k words are cut off, from where the next is looked for.
LEMMA RestOfLine ==
  ASSUME NEW l \in Seq(Text), NEW w, NEW a, NEW e, NEW b, Packed(l, Len(l), w, a, e, b),
         NEW k \in 0 .. w - 1, NEW t, Trimmed(l, a, e, b, k, t)
  PROVE /\ t[b[k + 1]] # Line!Nul
        /\ \A x \in b[k + 1] .. a[k + 1] - 1 : t[x] = Line!Space
        /\ \A x \in a[k + 1] .. e[k + 1] - 1 : t[x] = l[x] /\ t[x] \notin {Line!Space, Line!Nul}
        /\ t[e[k + 1]] = IF e[k + 1] = Len(l) + 1 THEN Line!Nul ELSE Line!Space
        /\ \A x \in e[k + 1] .. Len(l) + 1 : t[x] = Behind(l, e, k + 1, x)
<1> DEFINE m == Len(l)
           i == b[k + 1]
           from == a[k + 1]
           end == e[k + 1]
<1>1. w \in Nat /\ k \in Nat /\ k + 1 \in 1 .. w /\ m \in Nat
  BY DEF Packed, AreWords
<1>2. /\ from \in 1 .. m /\ end \in 1 .. m + 1 /\ from < end /\ i \in Nat /\ 1 <= i /\ i <= from
      /\ \A x \in from .. end - 1 : x \in DOMAIN l /\ l[x] \in Letters
      /\ end <= m => l[end] = Line!Space
  BY <1>1, WordIs
<1>3. EndOf(e, k) \in Nat /\ EndOf(e, k) < from
  <2>1. CASE k = 0
    BY <1>2, <2>1 DEF EndOf
  <2>2. CASE k # 0
    <3>1. k \in 1 .. w /\ k < k + 1
      BY <1>1, <2>2
    <3>2. e[k] \in Nat
      BY <3>1, WordIs
    <3>3. e[k] < from
      BY <1>1, <3>1 DEF Packed, AreWords
    <3> QED
      BY <2>2, <3>2, <3>3 DEF EndOf
  <2> QED
    BY <2>1, <2>2
<1>4. \A x \in i .. m + 1 : t[x] = Behind(l, e, k, x)
  BY DEF Trimmed
<1>5. EndOf(e, k + 1) = end
  BY <1>1 DEF EndOf
<1> HIDE DEF m, i, from, end
<1>6. ASSUME NEW x \in i .. from - 1 PROVE t[x] = Line!Space
  <2>1. x \in i .. m + 1 /\ x # m + 1 /\ x \in 1 .. m
    BY <1>1, <1>2
  <2>2. k \in 0 .. w /\ x < from
    BY <1>1, <1>2
  <2>3. EndOf(e, k) <= x => l[x] = Line!Space
    BY <2>1, <2>2, GapIs DEF m, from
  <2> QED
    BY <1>3, <1>4, <2>1, <2>3 DEF Behind, m
<1>7. ASSUME NEW x \in from .. end - 1 PROVE t[x] = l[x] /\ t[x] \notin {Line!Space, Line!Nul}
  <2>1. x \in i .. m + 1 /\ x # m + 1 /\ ~(x < EndOf(e, k))
    BY <1>1, <1>2, <1>3
  <2>2. t[x] = l[x]
    BY <1>4, <2>1 DEF Behind, m
  <2> QED
    BY <1>2, <2>2, CharsAre
<1>8. t[end] = IF end = m + 1 THEN Line!Nul ELSE Line!Space
  <2>1. end \in i .. m + 1 /\ ~(end < EndOf(e, k))
    BY <1>1, <1>2, <1>3
  <2>2. t[end] = IF end = m + 1 THEN Line!Nul ELSE l[end]
    BY <1>4, <2>1 DEF Behind, m
  <2> QED
    BY <1>1, <1>2, <2>2
<1>9. ASSUME NEW x \in end .. m + 1 PROVE t[x] = Behind(l, e, k + 1, x)
  <2>1. x \in i .. m + 1 /\ ~(x < EndOf(e, k)) /\ ~(x < EndOf(e, k + 1))
    BY <1>1, <1>2, <1>3, <1>5
  <2> QED
    BY <1>4, <2>1 DEF Behind
<1>10. t[i] # Line!Nul
  <2>1. i \in i .. from - 1 \/ i \in from .. end - 1
    BY <1>2
  <2> QED
    BY <1>6, <1>7, <2>1, CharsAre
<1> QED
  BY <1>6, <1>7, <1>8, <1>9, <1>10 DEF m, i, from, end

\* trimWord moves the next word to its place.
LEMMA TrimStep ==
  ASSUME NEW l \in Seq(Text), NEW w, NEW a, NEW e, NEW b, Packed(l, Len(l), w, a, e, b),
         NEW k \in 0 .. w - 1, NEW t, Trimmed(l, a, e, b, k, t)
  PROVE LET r == Line!TrimWord(t, b[k + 1])
        IN /\ Trimmed(l, a, e, b, k + 1, r.s)
           /\ r.chars = IF e[k + 1] = Len(l) + 1 THEN 0 ELSE e[k + 1] - a[k + 1] + 1
<1> DEFINE m == Len(l)
           i == b[k + 1]
           from == a[k + 1]
           end == e[k + 1]
           n == end - from
           r == Line!TrimWord(t, i)
           moved(x) == IF x \in i .. i + n - 1 THEN t[x + from - i]
                       ELSE IF x = i + n THEN Line!Nul
                       ELSE IF x \in from .. end - 1 THEN Line!Space
                       ELSE t[x]
           u == [x \in 1 .. Len(t) |-> moved(x)]
<1>1. w \in Nat /\ k \in Nat /\ k + 1 \in 1 .. w /\ m \in Nat
  BY DEF Packed, AreWords
<1>2. /\ from \in 1 .. m /\ end \in 1 .. m + 1 /\ from < end /\ i \in Nat /\ 1 <= i /\ i <= from
      /\ b[k + 2] = i + n + 1
      /\ \A j \in 1 .. k + 1 : b[j] \in Nat /\ 1 <= b[j] /\ b[j + 1] \in Nat
  BY <1>1, WordIs
<1>3. /\ t[i] # Line!Nul
      /\ \A x \in i .. from - 1 : t[x] = Line!Space
      /\ \A x \in from .. end - 1 : t[x] = l[x] /\ t[x] \notin {Line!Space, Line!Nul}
      /\ t[end] = IF end = m + 1 THEN Line!Nul ELSE Line!Space
      /\ \A x \in end .. m + 1 : t[x] = Behind(l, e, k + 1, x)
  BY RestOfLine
<1>4. t \in Seq(Chars) /\ Len(t) = m + 1 /\ \A j \in 1 .. k : InPlace(l, a, e, b, j, t)
  BY DEF Trimmed
<1>5. \A j \in 1 .. k : e[j] \in Nat /\ a[j] \in Nat /\ a[j] < e[j] /\ b[j] + (e[j] - a[j]) < i
  <2> SUFFICES ASSUME NEW j \in 1 .. k
               PROVE e[j] \in Nat /\ a[j] \in Nat /\ a[j] < e[j] /\ b[j] + (e[j] - a[j]) < i
    OBVIOUS
  <2>1. j \in 1 .. w /\ k \in 1 .. w
    BY <1>1
  <2>2. a[j] \in 1 .. Len(l) /\ e[j] \in 1 .. Len(l) + 1 /\ a[j] < e[j] /\ b[j + 1] = b[j] + (e[j] - a[j]) + 1
    BY <2>1, WordIs
  <2>3. b[j + 1] <= i /\ b[j] \in Nat /\ b[j + 1] \in Nat
    BY <1>1, <2>1, WordIs
  <2>4. e[j] \in Nat /\ a[j] \in Nat
    BY <1>1, <2>2
  <2> HIDE DEF i, m
  <2> QED
    BY <1>2, <2>2, <2>3, <2>4
<1>6. end = EndOf(e, k + 1)
  BY <1>1 DEF EndOf
<1> HIDE DEF m, i, from, end
<1>7. Line!Past(t, i, {Line!Space}) = from
  <2>1. m + 1 \in Nat /\ from \in i .. m + 1 /\ from \in from .. end - 1
    BY <1>1, <1>2
  <2>2. t[from] \notin {Line!Space} /\ \A x \in i .. from - 1 : t[x] \in {Line!Space}
    BY <1>3, <2>1
  <2> QED
    BY <1>2, <1>4, <2>1, <2>2, PastIs
<1>8. Line!At(t, from, {Line!Space, Line!Nul}) = end
  <2>1. m + 1 \in Nat /\ from \in Nat /\ end \in from .. m + 1
    BY <1>1, <1>2
  <2>2. t[end] \in {Line!Space, Line!Nul} /\ \A x \in from .. end - 1 : t[x] \notin {Line!Space, Line!Nul}
    BY <1>3
  <2> QED
    BY <1>4, <2>1, <2>2, AtIs
<1>9. r.s = u /\ r.chars = IF end = m + 1 THEN 0 ELSE n + 1
  <2>1. r = [s |-> u, chars |-> IF t[end] = Line!Nul THEN 0 ELSE n + 1]
    BY <1>3, <1>7, <1>8 DEF Line!TrimWord
  <2>2. t[end] = Line!Nul <=> end = m + 1
    BY <1>3, CharsAre
  <2> QED
    BY <2>1, <2>2
<1>10. n \in Nat /\ n >= 1 /\ i + n <= end /\ i + n \in 1 .. m + 1
  BY <1>1, <1>2
<1>11. u \in Seq(Chars) /\ Len(u) = m + 1 /\ \A x \in 1 .. m + 1 : u[x] = moved(x)
  <2>1. \A x \in 1 .. m + 1 : t[x] \in Chars
    BY <1>1, <1>4
  <2>2. \A x \in 1 .. m + 1 : moved(x) \in Chars
    <3> SUFFICES ASSUME NEW x \in 1 .. m + 1 PROVE moved(x) \in Chars
      OBVIOUS
    <3>1. x \in i .. i + n - 1 => x + from - i \in 1 .. m + 1
      BY <1>1, <1>2, <1>10
    <3> QED
      BY <2>1, <3>1, CharsAre
  <2>3. u = [x \in 1 .. m + 1 |-> moved(x)]
    BY <1>4
  <2> HIDE DEF u, moved
  <2> QED
    BY <1>1, <2>2, <2>3
<1> HIDE DEF u, n, r
<1>12. ASSUME NEW j \in 1 .. k PROVE InPlace(l, a, e, b, j, u)
  <2>1. InPlace(l, a, e, b, j, t) /\ b[j] \in Nat /\ 1 <= b[j]
    BY <1>1, <1>2, <1>4
  <2>2. e[j] \in Nat /\ a[j] \in Nat /\ a[j] < e[j] /\ b[j] + (e[j] - a[j]) < i
    BY <1>5
  <2>3. \A x \in 1 .. i - 1 : u[x] = t[x]
    BY <1>1, <1>2, <1>10, <1>11
  <2>4. \A d \in 0 .. e[j] - a[j] : b[j] + d \in 1 .. i - 1
    <3> SUFFICES ASSUME NEW d \in 0 .. e[j] - a[j] PROVE b[j] + d \in 1 .. i - 1
      OBVIOUS
    <3>1. d \in Nat /\ d <= e[j] - a[j] /\ b[j] \in Nat /\ 1 <= b[j] /\ i \in Nat
      BY <1>2, <2>1, <2>2
    <3> QED
      BY <2>2, <3>1
  <2>5. \A d \in 0 .. e[j] - a[j] : u[b[j] + d] = t[b[j] + d]
    BY <2>3, <2>4
  <2>6. e[j] - a[j] \in 0 .. e[j] - a[j] /\ \A d \in 0 .. e[j] - a[j] - 1 : d \in 0 .. e[j] - a[j]
    BY <2>2
  <2> QED
    BY <2>1, <2>5, <2>6 DEF InPlace
<1>13. InPlace(l, a, e, b, k + 1, u)
  <2>1. \A d \in 0 .. n - 1 : u[i + d] = l[from + d]
    <3> SUFFICES ASSUME NEW d \in 0 .. n - 1 PROVE u[i + d] = l[from + d]
      OBVIOUS
    <3>1. /\ i + d \in 1 .. m + 1 /\ i + d \in i .. i + n - 1 /\ (i + d) + from - i = from + d
          /\ from + d \in from .. end - 1
      BY <1>1, <1>2, <1>10 DEF n
    <3>2. u[i + d] = t[from + d]
      BY <1>11, <3>1
    <3> QED
      BY <1>3, <3>1, <3>2
  <2>2. u[i + n] = Line!Nul
    <3>1. ~ (i + n \in i .. i + n - 1)
      BY <1>2, <1>10
    <3> QED
      BY <1>10, <1>11, <3>1
  <2> QED
    BY <2>1, <2>2 DEF InPlace, i, from, end, n
<1>14. ASSUME NEW x \in b[k + 2] .. m + 1 PROVE u[x] = Behind(l, e, k + 1, x)
  <2>1. x \in 1 .. m + 1 /\ ~(x \in i .. i + n - 1) /\ x # i + n /\ x >= i
    BY <1>2, <1>10
  <2>2. u[x] = IF x \in from .. end - 1 THEN Line!Space ELSE t[x]
    BY <1>11, <2>1
  <2>3. CASE x < end
    <3>1. u[x] = Line!Space
      <4>1. x \in from .. end - 1 \/ x \in i .. from - 1
        BY <1>2, <2>1, <2>3
      <4> QED
        BY <1>3, <2>2, <4>1
    <3> QED
      BY <1>6, <2>3, <3>1 DEF Behind
  <2>4. CASE ~(x < end)
    <3>1. x \in end .. m + 1 /\ ~(x \in from .. end - 1)
      BY <1>1, <1>2, <2>1, <2>4
    <3> QED
      BY <1>3, <2>2, <3>1
  <2> QED
    BY <2>3, <2>4
<1>15. \A j \in 1 .. k + 1 : InPlace(l, a, e, b, j, u)
  <2>1. \A j \in 1 .. k + 1 : j = k + 1 \/ j \in 1 .. k
    BY <1>1
  <2> QED
    BY <1>12, <1>13, <2>1
<1>16. (k + 1) + 1 = k + 2
  BY <1>1
<1>17. Trimmed(l, a, e, b, k + 1, u)
  BY <1>11, <1>14, <1>15, <1>16 DEF Trimmed, m
<1> QED
  BY <1>9, <1>17 DEF m, i, from, end, n, r

\* Behind the last word, when there are blanks left: trimWord puts a terminator there, and
\* is at the end.
LEMMA BlankStep ==
  ASSUME NEW l \in Seq(Text), NEW w, NEW a, NEW e, NEW b, Packed(l, Len(l), w, a, e, b),
         NEW t, Trimmed(l, a, e, b, w, t), w # 0, b[w + 1] <= Len(l)
  PROVE LET r == Line!TrimWord(t, b[w + 1])
        IN /\ r.s \in Seq(Chars) /\ Len(r.s) = Len(l) + 1
           /\ \A j \in 1 .. w : InPlace(l, a, e, b, j, r.s)
           /\ r.s[b[w + 1]] = Line!Nul
           /\ r.chars = 0
<1> DEFINE m == Len(l)
           i == b[w + 1]
           r == Line!TrimWord(t, i)
           moved(x) == IF x \in i .. i + 0 - 1 THEN t[x + (m + 1) - i]
                       ELSE IF x = i + 0 THEN Line!Nul
                       ELSE IF x \in m + 1 .. (m + 1) - 1 THEN Line!Space
                       ELSE t[x]
           u == [x \in 1 .. Len(t) |-> moved(x)]
<1>1. w \in Nat /\ w \in 1 .. w /\ m \in Nat
  BY DEF Packed, AreWords
<1>2. \A j \in 1 .. w : /\ b[j] \in Nat /\ 1 <= b[j] /\ b[j + 1] \in Nat /\ b[j + 1] <= i
                        /\ b[j + 1] = b[j] + (e[j] - a[j]) + 1
                        /\ e[j] \in Nat /\ a[j] \in Nat /\ a[j] < e[j]
  <2> SUFFICES ASSUME NEW j \in 1 .. w
               PROVE /\ b[j] \in Nat /\ 1 <= b[j] /\ b[j + 1] \in Nat /\ b[j + 1] <= i
                     /\ b[j + 1] = b[j] + (e[j] - a[j]) + 1
                     /\ e[j] \in Nat /\ a[j] \in Nat /\ a[j] < e[j]
    OBVIOUS
  <2>1. b[j] \in Nat /\ 1 <= b[j] /\ b[j + 1] \in Nat /\ b[j + 1] <= i
    BY <1>1, WordIs
  <2>2. /\ a[j] \in 1 .. m /\ e[j] \in 1 .. m + 1 /\ a[j] < e[j]
        /\ b[j + 1] = b[j] + (e[j] - a[j]) + 1
    BY <1>1, WordIs
  <2> QED
    BY <1>1, <2>1, <2>2
<1>3. i \in 1 .. m
  <2>1. i \in Nat /\ b[w] \in Nat /\ 1 <= b[w] /\ i = b[w] + (e[w] - a[w]) + 1
    BY <1>1, <1>2
  <2>2. e[w] \in Nat /\ a[w] \in Nat /\ a[w] < e[w]
    BY <1>1, <1>2
  <2> QED
    BY <1>1, <2>1, <2>2
<1>4. /\ t \in Seq(Chars) /\ Len(t) = m + 1 /\ \A j \in 1 .. w : InPlace(l, a, e, b, j, t)
      /\ \A x \in i .. m + 1 : t[x] = Behind(l, e, w, x)
  BY DEF Trimmed
<1>5. EndOf(e, w) = e[w] /\ e[w] \in 1 .. m + 1
  BY <1>1, WordIs DEF EndOf
<1> HIDE DEF m, i
<1>6. \A x \in i .. m : t[x] = Line!Space
  <2> SUFFICES ASSUME NEW x \in i .. m PROVE t[x] = Line!Space
    OBVIOUS
  <2>1. x \in 1 .. m /\ x # m + 1 /\ w \in 0 .. w /\ ~(w < w)
    BY <1>1, <1>3
  <2>2. EndOf(e, w) <= x => l[x] = Line!Space
    BY <2>1, GapIs DEF m
  <2> QED
    BY <1>1, <1>3, <1>4, <1>5, <2>1, <2>2 DEF Behind, m
<1>7. t[m + 1] = Line!Nul
  <2>1. ~(m + 1 < EndOf(e, w)) /\ m + 1 \in i .. m + 1
    BY <1>1, <1>3, <1>5
  <2> QED
    BY <1>4, <2>1 DEF Behind, m
<1>8. Line!Past(t, i, {Line!Space}) = m + 1
  <2>1. m + 1 \in Nat /\ i \in Nat /\ m + 1 \in i .. m + 1
    BY <1>1, <1>3
  <2>2. t[m + 1] \notin {Line!Space} /\ \A x \in i .. (m + 1) - 1 : t[x] \in {Line!Space}
    BY <1>1, <1>6, <1>7, CharsAre
  <2> QED
    BY <1>4, <2>1, <2>2, PastIs
<1>9. Line!At(t, m + 1, {Line!Space, Line!Nul}) = m + 1
  <2>1. m + 1 \in Nat /\ m + 1 \in m + 1 .. m + 1
    BY <1>1
  <2>2. t[m + 1] \in {Line!Space, Line!Nul} /\ \A x \in m + 1 .. (m + 1) - 1 : t[x] \notin {Line!Space, Line!Nul}
    BY <1>1, <1>7
  <2> QED
    BY <1>4, <2>1, <2>2, AtIs
<1>10. r.s = u /\ r.chars = 0
  <2>1. t[i] # Line!Nul /\ (m + 1) - (m + 1) = 0
    BY <1>1, <1>3, <1>6, CharsAre
  <2>2. r = [s |-> u, chars |-> 0]
    BY <1>7, <1>8, <1>9, <2>1 DEF Line!TrimWord
  <2> QED
    BY <2>2
<1>11. \A x \in 1 .. m + 1 : moved(x) = IF x = i THEN Line!Nul ELSE t[x]
  BY <1>1, <1>3
<1>12. u \in Seq(Chars) /\ Len(u) = m + 1 /\ \A x \in 1 .. m + 1 : u[x] = IF x = i THEN Line!Nul ELSE t[x]
  <2>1. \A x \in 1 .. m + 1 : moved(x) \in Chars
    BY <1>1, <1>4, <1>11, CharsAre
  <2>2. u = [x \in 1 .. m + 1 |-> moved(x)]
    BY <1>4
  <2> HIDE DEF u, moved
  <2> QED
    BY <1>1, <1>11, <2>1, <2>2
<1> HIDE DEF u, r
<1>13. ASSUME NEW j \in 1 .. w PROVE InPlace(l, a, e, b, j, u)
  <2>1. InPlace(l, a, e, b, j, t)
    BY <1>4
  <2>2. \A d \in 0 .. e[j] - a[j] : u[b[j] + d] = t[b[j] + d]
    <3> SUFFICES ASSUME NEW d \in 0 .. e[j] - a[j] PROVE u[b[j] + d] = t[b[j] + d]
      OBVIOUS
    <3>1. /\ b[j] \in Nat /\ 1 <= b[j] /\ b[j] + (e[j] - a[j]) + 1 <= i
          /\ e[j] \in Nat /\ a[j] \in Nat /\ d \in Nat /\ d <= e[j] - a[j]
      BY <1>2
    <3>2. b[j] + d \in 1 .. m + 1 /\ b[j] + d # i
      BY <1>1, <1>3, <3>1
    <3> QED
      BY <1>12, <3>2
  <2>3. e[j] - a[j] \in 0 .. e[j] - a[j] /\ \A d \in 0 .. e[j] - a[j] - 1 : d \in 0 .. e[j] - a[j]
    BY <1>2
  <2> QED
    BY <2>1, <2>2, <2>3 DEF InPlace
<1>14. u[i] = Line!Nul
  BY <1>1, <1>3, <1>12
<1> QED
  BY <1>10, <1>12, <1>13, <1>14 DEF m, i, r

\* The words are in place, and as many tokens are counted, or one more, which is empty,
\* when the line ends with a blank and there is room left for one.
LeftOver(l, w, e, b) == e[w] <= Len(l) /\ b[w + 1] <= Len(l)

AllCut(l, w, a, e, b, t, tokens) ==
  /\ t \in Seq(Chars) /\ Len(t) = Len(l) + 1
  /\ \A j \in 1 .. w : InPlace(l, a, e, b, j, t)
  /\ LeftOver(l, w, e, b) => t[b[w + 1]] = Line!Nul
  /\ tokens = IF LeftOver(l, w, e, b) THEN w + 1 ELSE w

\* The state of strtok between two calls of trimWord.
CutOk(l, w, a, e, b, c) ==
  IF c.next = 0
    THEN AllCut(l, w, a, e, b, c.s, c.tokens)
    ELSE /\ c.tokens \in 0 .. w /\ c.next = b[c.tokens + 1] /\ c.next <= Len(l)
         /\ Trimmed(l, a, e, b, c.tokens, c.s)
         /\ c.tokens = w => e[w] <= Len(l)

CutStep(c) ==
  LET t == Line!TrimWord(c.s, c.next)
      next == c.next + t.chars
  IN IF c.next = 0 THEN c
     ELSE [s |-> t.s, tokens |-> c.tokens + 1, next |-> IF t.chars # 0 /\ t.s[next] # Line!Nul THEN next ELSE 0]

LEMMA CutGoesOn ==
  ASSUME NEW l \in Seq(Text), NEW w, NEW a, NEW e, NEW b, Packed(l, Len(l), w, a, e, b), w # 0,
         NEW c, CutOk(l, w, a, e, b, c)
  PROVE /\ CutOk(l, w, a, e, b, CutStep(c))
        /\ c.next # 0 => CutStep(c).tokens = c.tokens + 1
<1> DEFINE m == Len(l)
           k == c.tokens
           t == Line!TrimWord(c.s, c.next)
           d == CutStep(c)
<1>1. w \in Nat /\ w \in 1 .. w /\ m \in Nat
  BY DEF Packed, AreWords
<1>2. CASE c.next = 0
  BY <1>2 DEF CutStep
<1>3. ASSUME c.next # 0
      PROVE /\ k \in 0 .. w /\ c.next = b[k + 1] /\ c.next <= m /\ Trimmed(l, a, e, b, k, c.s) /\ (k = w => e[w] <= m)
            /\ d.s = t.s /\ d.tokens = k + 1
            /\ d.next = IF t.chars # 0 /\ t.s[c.next + t.chars] # Line!Nul THEN c.next + t.chars ELSE 0
  BY <1>3 DEF CutOk, CutStep
<1> HIDE DEF d, t, m
<1>4. CASE c.next # 0 /\ k # w
  <2>1. PICK g \in 1 .. w : g = k + 1 /\ k \in 0 .. w - 1
    BY <1>1, <1>3, <1>4
  <2>2. Trimmed(l, a, e, b, g, t.s) /\ t.chars = IF e[g] = m + 1 THEN 0 ELSE e[g] - a[g] + 1
    BY <1>3, <1>4, <2>1, TrimStep DEF t, m
  <2>3. /\ a[g] \in 1 .. m /\ e[g] \in 1 .. m + 1 /\ a[g] < e[g]
        /\ b[g] \in Nat /\ 1 <= b[g] /\ b[g] <= a[g]
        /\ b[g + 1] = b[g] + (e[g] - a[g]) + 1
    <3>1. a[g] \in 1 .. Len(l) /\ e[g] \in 1 .. Len(l) + 1 /\ a[g] < e[g]
      BY <2>1, WordIs
    <3>2. b[g] \in Nat /\ 1 <= b[g] /\ b[g] <= a[g]
      BY <2>1, WordIs
    <3>3. b[g + 1] = b[g] + (e[g] - a[g]) + 1
      BY DEF Packed, ArePlaces
    <3> QED
      BY <3>1, <3>2, <3>3 DEF m
  <2>4. CASE g # w
    <3>1. g \in 0 .. w - 1 /\ g + 1 \in 1 .. w
      BY <1>1, <2>1, <2>4
    <3>2. e[g] < a[g + 1] /\ a[g + 1] \in 1 .. m /\ b[g + 1] <= a[g + 1]
      <4>1. a[g + 1] \in 1 .. m /\ b[g + 1] <= a[g + 1]
        BY <3>1, WordIs DEF m
      <4>2. e[g] < a[g + 1]
        BY <2>1, <3>1 DEF Packed, AreWords
      <4> QED
        BY <4>1, <4>2
    <3>3. t.s[b[g + 1]] # Line!Nul
      BY <2>2, <3>1, RestOfLine
    <3>4. PICK x \in Nat, y \in Nat, p \in Nat : x = a[g] /\ y = e[g] /\ p = b[g] /\ x < y
      BY <1>1, <2>3
    <3>5. y # m + 1 /\ b[g + 1] <= m
      <4>1. PICK z \in Nat : z = a[g + 1] /\ z <= m
        BY <1>1, <3>2
      <4>2. y < z
        BY <3>2, <3>4, <4>1
      <4>3. PICK n \in Nat : n = b[g + 1]
        <5>1. b[g + 1] = p + (y - x) + 1
          BY <2>3, <3>4
        <5> QED
          BY <3>4, <5>1
      <4>4. n <= z
        BY <3>2, <4>1, <4>3
      <4>5. y # m + 1 /\ n <= m
        BY <1>1, <3>4, <4>1, <4>2, <4>4
      <4> QED
        BY <4>3, <4>5
    <3>6. t.chars = y - x + 1 /\ c.next = p
      BY <1>3, <1>4, <2>1, <2>2, <3>4, <3>5
    <3>7. t.chars # 0 /\ c.next + t.chars = b[g + 1]
      <4>1. b[g + 1] = p + (y - x) + 1
        BY <2>3, <3>4
      <4>2. t.chars # 0 /\ p + t.chars = p + (y - x) + 1
        BY <3>4, <3>6
      <4> QED
        BY <3>6, <4>1, <4>2
    <3>8. d.next = b[g + 1]
      BY <1>3, <1>4, <3>3, <3>7
    <3>9. b[g + 1] # 0
      <4>1. b[g + 1] = p + (y - x) + 1
        BY <2>3, <3>4
      <4> QED
        BY <3>4, <4>1
    <3> QED
      BY <1>3, <1>4, <2>1, <2>2, <2>4, <3>5, <3>8, <3>9 DEF CutOk, d, m
  <2>5. CASE g = w
    <3>1. e[w] \in 1 .. m + 1 /\ b[w + 1] \in Nat /\ b[w + 1] >= 1 /\ b[w + 1] <= e[w] + 1
      BY <1>1, <2>3, <2>5
    <3>2. /\ t.s \in Seq(Chars) /\ Len(t.s) = m + 1 /\ (\A j \in 1 .. w : InPlace(l, a, e, b, j, t.s))
          /\ \A i \in b[w + 1] .. m + 1 : t.s[i] = Behind(l, e, w, i)
      BY <2>2, <2>5 DEF Trimmed, m
    <3>3. CASE e[w] = m + 1
      <4>1. d.next = 0
        BY <1>3, <1>4, <2>2, <2>5, <3>3
      <4>2. ~ LeftOver(l, w, e, b)
        BY <1>1, <3>3 DEF LeftOver, m
      <4> QED
        BY <1>3, <1>4, <2>1, <2>5, <3>2, <4>1, <4>2 DEF CutOk, AllCut, d, m
    <3>4. CASE e[w] # m + 1
      <4>1. t.chars # 0 /\ c.next + t.chars = b[w + 1] /\ e[w] <= m /\ b[w + 1] <= m + 1
        <5>1. e[w] <= m /\ b[w + 1] <= m + 1
          BY <1>1, <3>1, <3>4
        <5>2. t.chars = e[g] - a[g] + 1 /\ c.next = b[g]
          BY <1>3, <1>4, <2>1, <2>2, <2>5, <3>4
        <5>3. t.chars # 0 /\ b[g] + t.chars = b[g + 1]
          BY <1>1, <2>3, <5>2
        <5> QED
          BY <2>5, <5>1, <5>2, <5>3
      <4>2. CASE b[w + 1] <= m
        <5>1. t.s[b[w + 1]] # Line!Nul
          <6>1. b[w + 1] \in b[w + 1] .. m + 1 /\ b[w + 1] # m + 1 /\ b[w + 1] \in 1 .. m
            BY <1>1, <3>1, <4>2
          <6>2. t.s[b[w + 1]] = Line!Space \/ t.s[b[w + 1]] = l[b[w + 1]]
            BY <3>2, <6>1 DEF Behind, m
          <6>3. l[b[w + 1]] \in Text
            BY <6>1 DEF m
          <6> QED
            BY <6>2, <6>3, CharsAre
        <5>2. d.next = b[w + 1] /\ d.next # 0
          BY <1>3, <1>4, <3>1, <4>1, <5>1
        <5> QED
          BY <1>1, <1>3, <1>4, <2>1, <2>2, <2>5, <4>1, <4>2, <5>2 DEF CutOk, d, m
      <4>3. CASE b[w + 1] = m + 1
        <5>1. t.s[b[w + 1]] = Line!Nul
          <6>1. b[w + 1] \in b[w + 1] .. m + 1 /\ ~(m + 1 < EndOf(e, w))
            BY <1>1, <3>1, <4>3 DEF EndOf
          <6> QED
            BY <3>2, <4>3, <6>1 DEF Behind, m
        <5>2. d.next = 0
          BY <1>3, <1>4, <4>1, <5>1
        <5>3. ~ LeftOver(l, w, e, b)
          BY <1>1, <4>3 DEF LeftOver, m
        <5> QED
          BY <1>3, <1>4, <2>1, <2>5, <3>2, <5>2, <5>3 DEF CutOk, AllCut, d, m
      <4> QED
        BY <1>1, <3>1, <4>1, <4>2, <4>3
    <3> QED
      BY <3>3, <3>4
  <2> QED
    BY <2>4, <2>5
<1>5. CASE c.next # 0 /\ k = w
  <2>1. /\ t.s \in Seq(Chars) /\ Len(t.s) = m + 1
        /\ \A j \in 1 .. w : InPlace(l, a, e, b, j, t.s)
        /\ t.s[b[w + 1]] = Line!Nul
        /\ t.chars = 0
    BY <1>3, <1>5, BlankStep DEF t, m
  <2>2. LeftOver(l, w, e, b)
    BY <1>3, <1>5 DEF LeftOver, m
  <2>3. d.next = 0 /\ d.tokens = w + 1 /\ d.s = t.s
    BY <1>3, <1>5, <2>1
  <2>4. AllCut(l, w, a, e, b, t.s, w + 1)
    BY <2>1, <2>2 DEF AllCut, m
  <2> QED
    BY <1>3, <1>5, <2>3, <2>4 DEF CutOk, d
<1> QED
  BY <1>2, <1>4, <1>5

\* strtok ends with all words cut: there are more characters than words.
LEMMA CutIs ==
  ASSUME NEW l \in Seq(Text), NEW w, NEW a, NEW e, NEW b, Packed(l, Len(l), w, a, e, b), w # 0
  PROVE LET c == Line!Cut(Append(l, Line!Nul)) IN AllCut(l, w, a, e, b, c.s, c.tokens)
<1> DEFINE s == Append(l, Line!Nul)
           N == Len(s)
           c0 == [s |-> s, next |-> 1, tokens |-> 0]
           S == {c \in [s : Seq(Chars), next : Nat, tokens : Nat] : CutOk(l, w, a, e, b, c)}
           one == [c \in S |-> CutStep(c)]
           g == [k \in 1 .. N |-> one]
           Walks(f) == f = [n \in 0 .. N |->
             IF n = 0 THEN c0
             ELSE LET c == f[n - 1]
                      t == Line!TrimWord(c.s, c.next)
                      next == c.next + t.chars
                  IN IF c.next = 0 THEN c
                     ELSE [s |-> t.s, tokens |-> c.tokens + 1,
                           next |-> IF t.chars # 0 /\ t.s[next] # Line!Nul THEN next ELSE 0]]
           nth == CHOOSE f : Walks(f)
<1>1. w \in 0 .. Len(l) /\ w \in Nat /\ w \in 1 .. w /\ Len(l) \in Nat
  BY DEF Packed, AreWords
<1>2. s \in Seq(Chars) /\ N = Len(l) + 1 /\ \A i \in 1 .. N : s[i] = IF i = Len(l) + 1 THEN Line!Nul ELSE l[i]
  <2>1. l \in Seq(Chars) /\ Line!Nul \in Chars
    BY CharsAre
  <2>2. \A i \in 1 .. Len(l) + 1 : Append(l, Line!Nul)[i] = IF i = Len(l) + 1 THEN Line!Nul ELSE l[i]
    BY <1>1
  <2>3. Append(l, Line!Nul) \in Seq(Chars) /\ Len(Append(l, Line!Nul)) = Len(l) + 1
    BY <2>1
  <2> QED
    BY <2>2, <2>3
<1> HIDE DEF s, N
<1>3. c0 \in S
  <2>1. b[0 + 1] = 1 /\ 1 <= Len(l)
    BY <1>1, WordIs DEF Packed, ArePlaces
  <2>2. Trimmed(l, a, e, b, 0, s)
    <3>1. \A i \in b[0 + 1] .. Len(l) + 1 : s[i] = Behind(l, e, 0, i)
      BY <1>1, <1>2, <2>1 DEF Behind, EndOf
    <3>2. \A j \in 1 .. 0 : InPlace(l, a, e, b, j, s)
      OBVIOUS
    <3>3. s \in Seq(Chars) /\ Len(s) = Len(l) + 1
      BY <1>2 DEF N
    <3> QED
      BY <3>1, <3>2, <3>3 DEF Trimmed
  <2>3. CutOk(l, w, a, e, b, c0)
    BY <1>1, <2>1, <2>2 DEF CutOk
  <2> QED
    BY <1>2, <2>3
<1>4. ASSUME NEW c \in S PROVE CutStep(c) \in S /\ (c.next # 0 => CutStep(c).tokens = c.tokens + 1)
  <2>1. CutOk(l, w, a, e, b, c) /\ c \in [s : Seq(Chars), next : Nat, tokens : Nat]
    OBVIOUS
  <2> DEFINE d == CutStep(c)
  <2>2. CutOk(l, w, a, e, b, d) /\ (c.next # 0 => d.tokens = c.tokens + 1)
    BY <2>1, CutGoesOn
  <2>3. CASE c.next = 0
    BY <2>1, <2>3 DEF CutStep
  <2>4. CASE c.next # 0
    <3>1. d = [s |-> d.s, tokens |-> d.tokens, next |-> d.next]
      BY <2>4 DEF CutStep
    <3>2. d.s \in Seq(Chars)
      <4> HIDE DEF d
      <4> QED
        BY <2>2 DEF CutOk, AllCut, Trimmed
    <3>3. d.tokens \in Nat
      BY <2>1, <2>2, <2>4
    <3>4. d.next \in Nat
      <4>1. \A k \in 0 .. w : b[k + 1] \in Nat
        BY <1>1 DEF Packed, ArePlaces
      <4> HIDE DEF d
      <4> QED
        BY <2>2, <4>1 DEF CutOk
    <3> HIDE DEF d
    <3>5. d \in [s : Seq(Chars), next : Nat, tokens : Nat]
      BY <3>1, <3>2, <3>3, <3>4
    <3>6. d \in S
      BY <2>2, <3>5
    <3> QED
      BY <2>2, <3>6 DEF d
  <2> QED
    BY <2>3, <2>4
<1>5. one \in [S -> S] /\ \A c \in S : one[c] = CutStep(c)
  <2> HIDE DEF S
  <2> QED
    BY <1>4
<1>6. N \in Nat
  BY <1>1, <1>2
<1>7. \E f \in [0 .. N -> S] : Steps(f, g, c0, N)
  <2>1. g \in [1 .. N -> [S -> S]]
    <3> HIDE DEF one, S
    <3> QED
      BY <1>5
  <2> HIDE DEF g, S, c0
  <2> QED
    BY <1>3, <1>6, <2>1, Repeated
<1>8. PICK f \in [0 .. N -> S] : Steps(f, g, c0, N)
  BY <1>7
<1>9. /\ f[0] = c0
      /\ \A k \in 1 .. N : f[k] = CutStep(f[k - 1])
  <2> HIDE DEF S, one, c0
  <2>1. f[0] = c0 /\ \A k \in 1 .. N : f[k] = g[k][f[k - 1]]
    BY <1>8 DEF Steps
  <2>2. \A k \in 1 .. N : g[k] = one /\ f[k - 1] \in S
    BY <1>6, <1>8
  <2> QED
    BY <1>5, <2>1, <2>2
<1>10. Walks(f)
  <2> DEFINE body == [n \in 0 .. N |-> IF n = 0 THEN c0 ELSE CutStep(f[n - 1])]
  <2>1. f = body
    <3> HIDE DEF S, c0
    <3>1. \A n \in 0 .. N : f[n] = IF n = 0 THEN c0 ELSE CutStep(f[n - 1])
      BY <1>6, <1>9
    <3>2. f \in [0 .. N -> S]
      BY <1>8
    <3> QED
      BY <3>1, <3>2
  <2>2. \A n \in 0 .. N : CutStep(f[n - 1]) =
          LET c == f[n - 1]
              t == Line!TrimWord(c.s, c.next)
              next == c.next + t.chars
          IN IF c.next = 0 THEN c
             ELSE [s |-> t.s, tokens |-> c.tokens + 1,
                   next |-> IF t.chars # 0 /\ t.s[next] # Line!Nul THEN next ELSE 0]
    BY DEF CutStep
  <2> QED
    BY <2>1 DEF CutStep
<1>11. Line!Cut(s) = nth[N]
  BY DEF Line!Cut, N
<1>12. Walks(nth)
  BY <1>10
<1>13. nth[0] = c0 /\ \A k \in 1 .. N : nth[k] = CutStep(nth[k - 1])
  <2> HIDE DEF nth, c0
  <2>1. nth = [n \in 0 .. N |-> IF n = 0 THEN c0 ELSE CutStep(nth[n - 1])]
    BY <1>12 DEF CutStep
  <2> HIDE DEF Walks
  <2>2. 0 \in 0 .. N /\ \A k \in 1 .. N : k \in 0 .. N /\ k # 0
    BY <1>6
  <2> QED
    BY <2>1, <2>2
<1> HIDE DEF nth, Walks, S, c0
<1> DEFINE P == {k \in 0 .. N : nth[k] \in S /\ (nth[k].next # 0 => nth[k].tokens = k)}
<1>14. 0 \in P
  BY <1>3, <1>6, <1>13 DEF c0
<1>15. ASSUME NEW k \in 1 .. N, k - 1 \in P PROVE k \in P
  <2>1. nth[k - 1] \in S /\ (nth[k - 1].next # 0 => nth[k - 1].tokens = k - 1)
    BY <1>15
  <2>2. nth[k] = CutStep(nth[k - 1])
    BY <1>13
  <2>3. nth[k] \in S /\ (nth[k - 1].next # 0 => nth[k].tokens = (k - 1) + 1)
    BY <1>4, <2>1, <2>2
  <2>4. nth[k - 1].next = 0 => nth[k].next = 0
    BY <2>2 DEF CutStep
  <2> QED
    BY <2>3, <2>4
<1>16. nth[N] \in S /\ (nth[N].next # 0 => nth[N].tokens = N)
  <2>1. 0 .. N \subseteq P
    <3> HIDE DEF P
    <3> QED
      BY <1>6, <1>14, <1>15, Upward
  <2> QED
    BY <1>6, <2>1
<1>17. CutOk(l, w, a, e, b, nth[N])
  BY <1>16 DEF S
<1>18. nth[N].next = 0
  BY <1>1, <1>2, <1>16, <1>17 DEF CutOk
<1>19. AllCut(l, w, a, e, b, nth[N].s, nth[N].tokens)
  BY <1>17, <1>18 DEF CutOk
<1> QED
  BY <1>11, <1>19 DEF s

\* Where the line has a blank at its end, the last word ends before it.
LEMMA LastIs ==
  ASSUME NEW l \in Seq(Text), NEW w, NEW a, NEW e, NEW b, Packed(l, Len(l), w, a, e, b), w # 0
  PROVE e[w] <= Len(l) <=> l[Len(l)] = Line!Space
<1>1. w \in Nat /\ w \in 1 .. w /\ Len(l) \in Nat /\ w \in 0 .. w
  BY DEF Packed, AreWords
<1>2. /\ a[w] \in 1 .. Len(l) /\ e[w] \in 1 .. Len(l) + 1 /\ a[w] < e[w]
      /\ \A x \in a[w] .. e[w] - 1 : l[x] \in Letters
  BY <1>1, WordIs
<1>3. EndOf(e, w) = e[w] /\ Len(l) \in 1 .. Len(l)
  BY <1>1, <1>2 DEF EndOf
<1>4. CASE e[w] <= Len(l)
  <2>1. l[Len(l)] = Line!Space
    BY <1>1, <1>3, <1>4, GapIs
  <2> QED
    BY <1>4, <2>1
<1>5. CASE ~(e[w] <= Len(l))
  <2>1. Len(l) \in a[w] .. e[w] - 1
    BY <1>1, <1>2, <1>5
  <2> QED
    BY <1>2, <1>5, <2>1, CharsAre
<1> QED
  BY <1>4, <1>5

\* A string in t is the same as what was in l.
Part(q, i, j) == SubSeq(q, i, j)
IsString(t, l, p, x, n) ==
  /\ p \in Nat /\ x \in Nat /\ n \in Nat
  /\ 1 <= p /\ p + n <= Len(t) /\ 1 <= x /\ x + n - 1 <= Len(l)
  /\ \A d \in 0 .. n - 1 : t[p + d] = l[x + d]
  /\ t[p + n] = Line!Nul

NulFrom(t, p) == Line!At(t, p, {Line!Nul})
SameString(t, l, p, x, n) ==
  /\ NulFrom(t, p) = p + n
  /\ Part(t, p, p + n - 1) = Part(l, x, x + n - 1)

LEMMA WordIn ==
  ASSUME NEW t \in Seq(Chars), NEW l \in Seq(Text), NEW p, NEW x, NEW n, IsString(t, l, p, x, n)
  PROVE SameString(t, l, p, x, n)
<1> DEFINE m == Len(t)
<1>1. /\ m \in Nat /\ Len(l) \in Nat /\ p \in Nat /\ x \in Nat /\ n \in Nat
      /\ 1 <= p /\ p + n <= m /\ 1 <= x /\ x + n - 1 <= Len(l) /\ t[p + n] = Line!Nul
  BY DEF IsString
<1>2. ASSUME NEW i \in 1 .. n PROVE t[i + p - 1] = l[i + x - 1] /\ l[i + x - 1] \in Text
  <2>1. i - 1 \in 0 .. n - 1 /\ p + (i - 1) = i + p - 1 /\ x + (i - 1) = i + x - 1 /\ i + x - 1 \in 1 .. Len(l)
    BY <1>1
  <2>2. t[p + (i - 1)] = l[x + (i - 1)]
    BY <2>1 DEF IsString
  <2> QED
    BY <2>1, <2>2
<1>3. Line!At(t, p, {Line!Nul}) = p + n
  <2>1. \A y \in p .. (p + n) - 1 : t[y] \notin {Line!Nul}
    <3> SUFFICES ASSUME NEW y \in p .. (p + n) - 1 PROVE t[y] # Line!Nul
      OBVIOUS
    <3>1. PICK i \in 1 .. n : i + p - 1 = y
      <4>1. (y - p) + 1 \in 1 .. n /\ ((y - p) + 1) + p - 1 = y
        BY <1>1
      <4> QED
        BY <4>1
    <3>2. t[i + p - 1] \in Text
      BY <1>2
    <3> QED
      BY <3>1, <3>2, CharsAre
  <2>2. p + n \in p .. m
    BY <1>1
  <2>3. t[p + n] \in {Line!Nul} /\ Len(t) = m
    BY <1>1
  <2> HIDE DEF m
  <2> QED
    BY <1>1, <2>1, <2>2, <2>3, AtIs
<1>4. Part(t, p, p + n - 1) = [i \in 1 .. n |-> t[i + p - 1]]
  <2>1. 1 + (p + n - 1) - p = n
    BY <1>1
  <2> QED
    BY <1>1, <2>1 DEF Part
<1>5. Part(l, x, x + n - 1) = [i \in 1 .. n |-> l[i + x - 1]]
  <2>1. 1 + (x + n - 1) - x = n
    BY <1>1
  <2> QED
    BY <1>1, <2>1 DEF Part
<1>6. Part(t, p, p + n - 1) = Part(l, x, x + n - 1)
  BY <1>2, <1>4, <1>5
<1> QED
  BY <1>3, <1>6 DEF SameString, NulFrom

\* The strings in what is left of the line: where the n-th ends, and what it is.
TheString(l, w, a, e, n) == IF n \in 1 .. w THEN Part(l, a[n], e[n] - 1) ELSE <<>>
StringOk(l, w, a, e, b, t, tokens, n) ==
  /\ n < tokens => b[n + 1] = NulFrom(t, b[n]) + 1
  /\ Part(t, b[n], NulFrom(t, b[n]) - 1) = TheString(l, w, a, e, n)

LEMMA StringIs ==
  ASSUME NEW l \in Seq(Text), NEW w, NEW a, NEW e, NEW b, Packed(l, Len(l), w, a, e, b), w # 0,
         NEW t, NEW tokens, AllCut(l, w, a, e, b, t, tokens), NEW n \in 1 .. tokens
  PROVE StringOk(l, w, a, e, b, t, tokens, n)
<1> DEFINE m == Len(l)
<1>1. /\ w \in Nat /\ m \in Nat /\ t \in Seq(Chars) /\ Len(t) = m + 1
      /\ tokens = IF LeftOver(l, w, e, b) THEN w + 1 ELSE w
      /\ LeftOver(l, w, e, b) => t[b[w + 1]] = Line!Nul
  BY DEF Packed, AreWords, AllCut
<1> HIDE DEF m
<1>2. CASE n \in 1 .. w
  <2>1. a[n] \in 1 .. m /\ e[n] \in 1 .. m + 1 /\ a[n] < e[n]
    BY <1>2, WordIs DEF m
  <2>2. b[n] \in Nat /\ 1 <= b[n] /\ b[n] <= a[n]
    BY <1>2, WordIs
  <2>3. b[n + 1] = b[n] + (e[n] - a[n]) + 1
    BY <1>2 DEF Packed, ArePlaces
  <2>4. (\A d \in 0 .. e[n] - a[n] - 1 : t[b[n] + d] = l[a[n] + d]) /\ t[b[n] + (e[n] - a[n])] = Line!Nul
    BY <1>2 DEF AllCut, InPlace
  <2>5. PICK x \in Nat, y \in Nat, p \in Nat : x = a[n] /\ y = e[n] /\ p = b[n]
    BY <1>1, <2>1, <2>2
  <2>6. PICK len \in Nat : len = y - x /\ y = x + len
    BY <2>1, <2>5
  <2>7. 1 <= p /\ p <= x /\ 1 <= x /\ y <= m + 1
    BY <1>1, <2>1, <2>2, <2>5
  <2>8. p + len <= m + 1 /\ x + len - 1 <= m
    BY <1>1, <2>6, <2>7
  <2>9. (\A d \in 0 .. len - 1 : t[p + d] = l[x + d]) /\ t[p + len] = Line!Nul
    BY <2>4, <2>5, <2>6
  <2>10. IsString(t, l, p, x, len)
    BY <1>1, <2>7, <2>8, <2>9 DEF IsString, m
  <2>11. SameString(t, l, p, x, len)
    BY <1>1, <2>10, WordIn
  <2>12. b[n + 1] = p + len + 1 /\ NulFrom(t, b[n]) = p + len
    BY <2>3, <2>5, <2>6, <2>11 DEF SameString
  <2>13. b[n + 1] = NulFrom(t, b[n]) + 1
    BY <2>12
  <2>14. Part(t, b[n], NulFrom(t, b[n]) - 1) = Part(l, x, x + len - 1)
    BY <2>5, <2>11, <2>12 DEF SameString
  <2>15. TheString(l, w, a, e, n) = Part(l, x, x + len - 1)
    BY <1>2, <2>5, <2>6 DEF TheString
  <2> QED
    BY <2>13, <2>14, <2>15 DEF StringOk
<1>3. CASE n \notin 1 .. w
  <2>1. n = w + 1 /\ LeftOver(l, w, e, b) /\ tokens = w + 1
    BY <1>1, <1>3
  <2>2. t[b[n]] = Line!Nul /\ b[n] <= m
    BY <1>1, <2>1 DEF LeftOver, m
  <2>3. b[n] \in Nat /\ 1 <= b[n]
    <3>1. w \in 1 .. w
      BY <1>1
    <3>2. b[w] \in Nat /\ 1 <= b[w] /\ a[w] \in 1 .. m /\ e[w] \in 1 .. m + 1 /\ a[w] < e[w]
      BY <3>1, WordIs DEF m
    <3>3. b[w + 1] = b[w] + (e[w] - a[w]) + 1
      BY <3>1 DEF Packed, ArePlaces
    <3> QED
      BY <1>1, <2>1, <3>2, <3>3
  <2>4. PICK p \in Nat : p = b[n]
    BY <2>3
  <2>5. IsString(t, l, p, 1, 0)
    BY <1>1, <2>2, <2>3, <2>4 DEF IsString, m
  <2>6. SameString(t, l, p, 1, 0)
    BY <1>1, <2>5, WordIn
  <2>7. NulFrom(t, p) = p
    BY <2>4, <2>6 DEF SameString
  <2>8. Part(t, p, p - 1) = <<>>
    BY <1>1, <2>3, <2>4 DEF Part
  <2>9. ~(n < tokens) /\ TheString(l, w, a, e, n) = <<>>
    BY <1>1, <1>3, <2>1 DEF TheString
  <2> QED
    BY <2>4, <2>7, <2>8, <2>9 DEF StringOk
<1> QED
  BY <1>2, <1>3

Strings(l, w, a, e, tokens) == [n \in 1 .. tokens |-> TheString(l, w, a, e, n)]

\* makeArgs finds the strings one behind the other.
LEMMA ArgsAre ==
  ASSUME NEW l \in Seq(Text), NEW w, NEW a, NEW e, NEW b, Packed(l, Len(l), w, a, e, b), w # 0,
         NEW t, NEW tokens, AllCut(l, w, a, e, b, t, tokens)
  PROVE Line!MakeArgs(tokens, t) = Strings(l, w, a, e, tokens)
<1> DEFINE Follow(f) == f = [n \in 1 .. tokens |-> IF n = 1 THEN 1 ELSE NulFrom(t, f[n - 1]) + 1]
           arg == CHOOSE f : Follow(f)
           places == [n \in 1 .. tokens |-> b[n]]
<1>1. /\ w \in Nat /\ tokens \in Nat /\ b[1] = 1
      /\ tokens = IF LeftOver(l, w, e, b) THEN w + 1 ELSE w
  BY DEF Packed, AreWords, ArePlaces, AllCut
<1>2. \A n \in 1 .. tokens : n # 1 => NulFrom(t, b[n - 1]) + 1 = b[n]
  <2> SUFFICES ASSUME NEW n \in 1 .. tokens, n # 1 PROVE NulFrom(t, b[n - 1]) + 1 = b[n]
    OBVIOUS
  <2>1. PICK i \in 1 .. tokens : i = n - 1 /\ i + 1 = n /\ i < tokens
    BY <1>1
  <2>2. Packed(l, Len(l), w, a, e, b) /\ AllCut(l, w, a, e, b, t, tokens)
    OBVIOUS
  <2>3. StringOk(l, w, a, e, b, t, tokens, i)
    BY <2>1, <2>2, StringIs
  <2> QED
    BY <2>1, <2>3 DEF StringOk
<1>3. Follow(places)
  <2>1. \A n \in 1 .. tokens : places[n] = IF n = 1 THEN 1 ELSE NulFrom(t, places[n - 1]) + 1
    <3> SUFFICES ASSUME NEW n \in 1 .. tokens
                 PROVE b[n] = IF n = 1 THEN 1 ELSE NulFrom(t, places[n - 1]) + 1
      OBVIOUS
    <3>1. n # 1 => places[n - 1] = b[n - 1]
      BY <1>1
    <3> QED
      BY <1>1, <1>2, <3>1
  <2> HIDE DEF places
  <2>2. places = [n \in 1 .. tokens |-> places[n]]
    BY DEF places
  <2> QED
    BY <2>1, <2>2
<1>4. Follow(arg)
  BY <1>3
<1>5. Line!MakeArgs(tokens, t) = [n \in 1 .. tokens |-> Part(t, arg[n], NulFrom(t, arg[n]) - 1)]
  BY DEF Line!MakeArgs, Part, NulFrom
<1> HIDE DEF arg
<1>6. \A n \in 1 .. tokens : arg[n] = IF n = 1 THEN 1 ELSE NulFrom(t, arg[n - 1]) + 1
  BY <1>4
<1> DEFINE P == {k \in 0 .. tokens : k # 0 => arg[k] = b[k]}
<1>7. 0 \in P
  BY <1>1
<1>8. ASSUME NEW k \in 1 .. tokens, k - 1 \in P PROVE k \in P
  <2>1. k = 1 => arg[k] = b[k]
    BY <1>1, <1>6
  <2>2. k # 1 => arg[k - 1] = b[k - 1]
    BY <1>1, <1>8
  <2>3. k # 1 => arg[k] = b[k]
    BY <1>2, <1>6, <2>2
  <2> QED
    BY <1>1, <2>1, <2>3
<1>9. \A n \in 1 .. tokens : arg[n] = b[n]
  <2>1. 0 .. tokens \subseteq P
    <3> HIDE DEF P
    <3> QED
      BY <1>1, <1>7, <1>8, Upward
  <2> QED
    BY <1>1, <2>1
<1>10. \A n \in 1 .. tokens : Part(t, arg[n], NulFrom(t, arg[n]) - 1) = TheString(l, w, a, e, n)
  <2> SUFFICES ASSUME NEW n \in 1 .. tokens
               PROVE Part(t, arg[n], NulFrom(t, arg[n]) - 1) = TheString(l, w, a, e, n)
    OBVIOUS
  <2>1. StringOk(l, w, a, e, b, t, tokens, n)
    BY StringIs
  <2> QED
    BY <1>9, <2>1 DEF StringOk
<1> QED
  BY <1>5, <1>10 DEF Strings

\* The words of a line, and one string more that is empty, when there is something left
\* over; nothing of a line of blanks.
LEMMA LineArgs ==
  ASSUME NEW l \in Seq(Text)
  PROVE LET Blanks == {i \in DOMAIN l : l[i] = Line!Space}
            leftOver == Line!Words(l) # <<>> /\ Len(l) \in Blanks /\ Cardinality(Blanks) > Len(Line!Words(l))
        IN Line!Args(Append(l, Line!Nul)) = Line!Words(l) \o (IF leftOver THEN <<<<>>>> ELSE <<>>)
<1> DEFINE m == Len(l)
           s == Append(l, Line!Nul)
           W == Line!Words(l)
<1>1. PICK w, a, e, b : Packed(l, Len(l), w, a, e, b)
  BY WordsExist
<1>2. m \in Nat /\ w \in 0 .. m /\ DOMAIN l = 1 .. m /\ BlanksOf(l, m) = {i \in DOMAIN l : l[i] = Line!Space}
  BY <1>1 DEF Packed, AreWords, BlanksOf
<1>3. W = [k \in 1 .. w |-> SubSeq(l, a[k], e[k] - 1)]
  BY <1>1, WordsAre DEF Packed
<1>4. W \in Seq(Seq(Text)) /\ Len(W) = w /\ (W = <<>> <=> w = 0)
  <2>1. ASSUME NEW k \in 1 .. w PROVE SubSeq(l, a[k], e[k] - 1) \in Seq(Text)
    <3>1. a[k] \in 1 .. m /\ e[k] \in 1 .. m + 1 /\ a[k] < e[k]
      BY <1>1, WordIs
    <3>2. a[k] \in 1 .. m /\ e[k] - 1 \in 1 .. m
      BY <1>2, <3>1
    <3> QED
      BY <1>2, <3>2
  <2> HIDE DEF W
  <2>2. W \in Seq(Seq(Text)) /\ Len(W) = w
    BY <1>2, <1>3, <2>1
  <2> QED
    BY <1>2, <2>2
<1>5. /\ s \in Seq(Chars) /\ Len(s) = m + 1 /\ s[m + 1] = Line!Nul
      /\ \A i \in 1 .. m : s[i] = l[i] /\ s[i] # Line!Nul
  <2>1. l \in Seq(Chars) /\ Line!Nul \in Chars /\ \A i \in 1 .. m : l[i] # Line!Nul
    BY <1>2, CharsAre
  <2> QED
    BY <1>2, <2>1
<1>6. Line!At(s, 1, {Line!Nul}) = m + 1
  <2>1. m + 1 \in Nat /\ m + 1 \in 1 .. m + 1 /\ \A x \in 1 .. (m + 1) - 1 : x \in 1 .. m
    BY <1>2
  <2>2. s[m + 1] \in {Line!Nul} /\ \A x \in 1 .. (m + 1) - 1 : s[x] \notin {Line!Nul}
    BY <1>5, <2>1
  <2> HIDE DEF s, m
  <2> QED
    BY <1>5, <2>1, <2>2, AtIs
<1> HIDE DEF W, s
<1>7. CASE w = 0
  <2>1. Line!Past(s, 1, {Line!Space}) = m + 1
    <3>1. \A i \in 1 .. m : l[i] = Line!Space
      BY <1>1, <1>2, <1>7 DEF Packed, AreWords
    <3>2. m + 1 \in Nat /\ m + 1 \in 1 .. m + 1 /\ \A x \in 1 .. (m + 1) - 1 : s[x] \in {Line!Space}
      BY <1>2, <1>5, <3>1
    <3> HIDE DEF m
    <3> QED
      BY <1>5, <3>2, PastIs, CharsAre
  <2>2. Line!StrTok(s) = [s |-> s, tokens |-> 0]
    BY <1>2, <1>6, <2>1 DEF Line!StrTok, Line!IsNotEmptyString
  <2>3. Line!Args(s) = Line!MakeArgs(0, s)
    BY <2>2 DEF Line!Args
  <2>4. Line!MakeArgs(0, s) = <<>>
    BY DEF Line!MakeArgs
  <2>5. W = <<>> /\ W \o <<>> = <<>>
    BY <1>4, <1>7
  <2> QED
    BY <2>3, <2>4, <2>5 DEF W, s
<1>8. CASE w # 0
  <2> DEFINE c == Line!Cut(s)
  <2>1. AllCut(l, w, a, e, b, c.s, c.tokens)
    BY <1>1, <1>8, CutIs DEF s
  <2>2. w \in 1 .. w /\ a[w] \in 1 .. m /\ 1 \in 1 .. w
    <3>1. w \in 1 .. w /\ 1 \in 1 .. w
      BY <1>2, <1>8
    <3> QED
      BY <1>1, <3>1, WordIs
  <2>3. Line!Past(s, 1, {Line!Space}) = a[1]
    <3>1. a[1] \in 1 .. m /\ e[1] \in 1 .. m + 1 /\ a[1] < e[1] /\ \A x \in a[1] .. e[1] - 1 : l[x] \in Letters
      BY <1>1, <2>2, WordIs
    <3>2. s[a[1]] \notin {Line!Space}
      <4>1. a[1] \in a[1] .. e[1] - 1
        BY <1>2, <3>1
      <4> QED
        BY <1>5, <3>1, <4>1, CharsAre
    <3>3. \A x \in 1 .. a[1] - 1 : s[x] \in {Line!Space}
      <4> SUFFICES ASSUME NEW x \in 1 .. a[1] - 1 PROVE s[x] \in {Line!Space}
        OBVIOUS
      <4>1. x \in 1 .. m /\ x < a[0 + 1] /\ 0 \in 0 .. w /\ EndOf(e, 0) <= x
        BY <1>2, <3>1 DEF EndOf
      <4>2. l[x] = Line!Space
        BY <1>1, <4>1, GapIs
      <4> QED
        BY <1>5, <4>1, <4>2
    <3>4. m + 1 \in Nat /\ a[1] \in 1 .. m + 1
      BY <1>2, <3>1
    <3> HIDE DEF m
    <3> QED
      BY <1>5, <3>2, <3>3, <3>4, PastIs
  <2>4. Line!StrTok(s) = c
    <3>1. a[1] \in 1 .. m
      BY <1>1, <2>2, WordIs
    <3> HIDE DEF c
    <3>2. Line!IsNotEmptyString(s)
      BY <1>2, <1>6, <2>3, <3>1 DEF Line!IsNotEmptyString
    <3> QED
      BY <3>2 DEF Line!StrTok, c
  <2> HIDE DEF c
  <2>5. Line!Args(s) = [n \in 1 .. c.tokens |-> IF n \in 1 .. w THEN SubSeq(l, a[n], e[n] - 1) ELSE <<>>]
    <3>1. Line!Args(s) = Line!MakeArgs(c.tokens, c.s)
      BY <2>4 DEF Line!Args
    <3>2. Line!MakeArgs(c.tokens, c.s) = Strings(l, w, a, e, c.tokens)
      BY <1>1, <1>8, <2>1, ArgsAre
    <3> QED
      BY <3>1, <3>2 DEF Strings, TheString, Part
  <2>6. LeftOver(l, w, e, b) <=> m \in BlanksOf(l, m) /\ Cardinality(BlanksOf(l, m)) > w
    <3>1. e[w] <= m <=> m \in BlanksOf(l, m)
      BY <1>1, <1>2, <1>8, <2>2, LastIs DEF BlanksOf
    <3>2. /\ Cardinality(BlanksOf(l, m)) \in Nat /\ b[w + 1] \in Nat
          /\ Cardinality(BlanksOf(l, m)) + b[w + 1] = m + w + 1
      <4>1. w + 1 \in 1 .. w + 1
        BY <1>2
      <4> QED
        BY <1>1, <4>1, FS_CardinalityType DEF Packed, ArePlaces
    <3>3. b[w + 1] <= m <=> Cardinality(BlanksOf(l, m)) > w
      BY <1>2, <3>2
    <3> QED
      BY <3>1, <3>3 DEF LeftOver
  <2>7. c.tokens = IF LeftOver(l, w, e, b) THEN w + 1 ELSE w
    BY <2>1 DEF AllCut
  <2>8. CASE LeftOver(l, w, e, b)
    <3>1. Line!Args(s) = W \o <<<<>>>>
      <4>1. W \o <<<<>>>> = [n \in 1 .. w + 1 |-> IF n \in 1 .. w THEN W[n] ELSE <<>>]
        BY <1>2, <1>4
      <4>2. \A n \in 1 .. w : W[n] = SubSeq(l, a[n], e[n] - 1)
        BY <1>3
      <4> QED
        BY <2>5, <2>7, <2>8, <4>1, <4>2
    <3> QED
      BY <1>2, <1>4, <1>8, <2>6, <2>8, <3>1 DEF W, s
  <2>9. CASE ~ LeftOver(l, w, e, b)
    <3>1. Line!Args(s) = W
      BY <1>3, <2>5, <2>7, <2>9
    <3>2. W \o <<>> = W
      BY <1>4
    <3> QED
      BY <1>2, <1>4, <1>8, <2>6, <2>9, <3>1, <3>2 DEF W, s
  <2> QED
    BY <2>8, <2>9
<1> QED
  BY <1>2, <1>7, <1>8

----------------------------------------------------------------------------
(* The line that gets() puts together.                                     *)

\* What there is of it, key after key.
Looks(q, f) == f = [n \in 0 .. Len(q) |-> IF n = 0 THEN <<>> ELSE Line!Erase(f[n - 1], q[n])]
Sights(q) == CHOOSE f : Looks(q, f)

LEMMA FrontIs ==
  ASSUME NEW S, NEW s \in Seq(S), s # <<>>
  PROVE /\ Line!Front(s) \in Seq(S) /\ Len(Line!Front(s)) = Len(s) - 1 /\ Len(s) \in Nat \ {0}
        /\ \A i \in 1 .. Len(s) - 1 : Line!Front(s)[i] = s[i]
<1> DEFINE m == Len(s) - 1
<1>1. m \in Nat /\ Len(s) \in Nat \ {0} /\ \A i \in 1 .. m : s[i] \in S
  OBVIOUS
<1>2. Line!Front(s) = [i \in 1 .. m |-> s[i]]
  <2>1. SubSeq(s, 1, m) = [i \in 1 .. m |-> s[i]]
    BY <1>1
  <2> QED
    BY <2>1 DEF Line!Front
<1> HIDE DEF m
<1>3. Line!Front(s) \in Seq(S) /\ Len(Line!Front(s)) = m /\ \A i \in 1 .. m : Line!Front(s)[i] = s[i]
  BY <1>1, <1>2
<1> QED
  BY <1>1, <1>3 DEF m

LEMMA FrontOfAppend ==
  ASSUME NEW S, NEW s \in Seq(S), NEW x \in S
  PROVE Line!Front(Append(s, x)) = s
BY DEF Line!Front

LEMMA ErasedIs ==
  ASSUME NEW S, NEW l \in Seq(S), NEW k \in S
  PROVE Line!Erase(l, k) \in Seq(S)
<1>1. CASE l = <<>>
  BY <1>1 DEF Line!Erase
<1>2. CASE l # <<>>
  BY <1>2, FrontIs DEF Line!Erase
<1> QED
  BY <1>1, <1>2

LEMMA SightsAre ==
  ASSUME NEW q \in Seq(Line!Keys)
  PROVE /\ Line!Seen(q) = Sights(q)[Len(q)] /\ Sights(q)[0] = <<>>
        /\ \A n \in 1 .. Len(q) : Sights(q)[n] = Line!Erase(Sights(q)[n - 1], q[n])
<1> DEFINE N == Len(q)
           S == Seq(Line!Keys)
           g == [k \in 1 .. N |-> [l \in S |-> Line!Erase(l, q[k])]]
<1>1. N \in Nat /\ <<>> \in S /\ \A k \in 1 .. N : q[k] \in Line!Keys
  OBVIOUS
<1>2. \A l \in S, k \in 1 .. N : Line!Erase(l, q[k]) \in S
  BY <1>1, ErasedIs
<1>3. g \in [1 .. N -> [S -> S]] /\ \A k \in 1 .. N, l \in S : g[k][l] = Line!Erase(l, q[k])
  <2> HIDE DEF S, N
  <2> QED
    BY <1>2
<1>4. \E f \in [0 .. N -> S] : Steps(f, g, <<>>, N)
  <2> HIDE DEF S, N, g
  <2> QED
    BY <1>1, <1>3, Repeated
<1>5. PICK f \in [0 .. N -> S] : Steps(f, g, <<>>, N)
  BY <1>4
<1>6. \A n \in 0 .. N : f[n] = IF n = 0 THEN <<>> ELSE Line!Erase(f[n - 1], q[n])
  <2> HIDE DEF S, g
  <2>1. \A n \in 1 .. N : f[n] = g[n][f[n - 1]] /\ n - 1 \in 0 .. N
    BY <1>1, <1>5 DEF Steps
  <2>2. f[0] = <<>>
    BY <1>5 DEF Steps
  <2> QED
    BY <1>1, <1>3, <1>5, <2>1, <2>2
<1>7. Looks(q, f)
  <2> HIDE DEF S
  <2> QED
    BY <1>5, <1>6 DEF Looks
<1>8. Looks(q, Sights(q))
  BY <1>7 DEF Sights
<1>9. Line!Seen(q) = Sights(q)[N]
  BY DEF Line!Seen, Sights, Looks
<1> DEFINE s == Sights(q)
<1> HIDE DEF s
<1>10. s = [n \in 0 .. N |-> IF n = 0 THEN <<>> ELSE Line!Erase(s[n - 1], q[n])]
  BY <1>8 DEF s, Looks
<1>11. 0 \in 0 .. N /\ \A n \in 1 .. N : n \in 0 .. N /\ n # 0
  BY <1>1
<1>12. s[0] = <<>> /\ \A n \in 1 .. N : s[n] = Line!Erase(s[n - 1], q[n])
  BY <1>10, <1>11
<1> QED
  BY <1>9, <1>12 DEF s

LEMMA NothingSeen == Line!Seen(<<>>) = <<>>
<1>1. <<>> \in Seq(Line!Keys) /\ Len(<<>>) = 0
  OBVIOUS
<1> QED
  BY <1>1, SightsAre

\* With one more key.
LEMMA SeenIs ==
  ASSUME NEW q \in Seq(Line!Keys), q # <<>>
  PROVE Line!Seen(q) = Line!Erase(Line!Seen(Line!Front(q)), q[Len(q)])
<1> DEFINE r == Line!Front(q)
           m == Len(r)
           f == Sights(q)
           g == Sights(r)
<1>1. /\ r \in Seq(Line!Keys) /\ m \in Nat /\ Len(q) = m + 1 /\ \A i \in 1 .. m : r[i] = q[i]
  BY FrontIs
<1>2. /\ Line!Seen(q) = f[m + 1] /\ f[0] = <<>>
      /\ \A n \in 1 .. m + 1 : f[n] = Line!Erase(f[n - 1], q[n])
  BY <1>1, SightsAre
<1> HIDE DEF r
<1>3. /\ Line!Seen(r) = g[m] /\ g[0] = <<>>
      /\ \A n \in 1 .. m : g[n] = Line!Erase(g[n - 1], r[n])
  BY <1>1, SightsAre
<1> HIDE DEF m, f, g
<1> DEFINE P == {n \in 0 .. m : f[n] = g[n]}
<1>4. 0 \in P
  BY <1>1, <1>2, <1>3
<1>5. ASSUME NEW n \in 1 .. m, n - 1 \in P PROVE n \in P
  <2>1. f[n] = Line!Erase(f[n - 1], q[n]) /\ g[n] = Line!Erase(g[n - 1], r[n]) /\ r[n] = q[n]
    BY <1>1, <1>2, <1>3
  <2> QED
    BY <1>1, <1>5, <2>1
<1>6. f[m] = g[m]
  <2>1. 0 .. m \subseteq P
    <3> HIDE DEF P
    <3> QED
      BY <1>1, <1>4, <1>5, Upward
  <2> QED
    BY <1>1, <2>1
<1>7. f[m + 1] = Line!Erase(f[m], q[m + 1])
  <2>1. m + 1 \in 1 .. m + 1 /\ (m + 1) - 1 = m
    BY <1>1
  <2> QED
    BY <1>2, <2>1
<1> QED
  BY <1>1, <1>2, <1>3, <1>6, <1>7 DEF r

\* What the buffer of gets() holds, and what is left to do: the line that was seen before
\* the last key, or all of it with a terminator for the Cr.
Editing(p) ==
  /\ lineAt[p] \in {"gets", "poll", "read"} => buf[p] = Line!Seen(heard[p]) /\ buf[p] \in Seq(Text)
  /\ lineAt[p] = "edit" =>
       /\ heard[p] # <<>> /\ char[p] = heard[p][Len(heard[p])]
       /\ buf[p] = Line!Seen(Line!Front(heard[p])) /\ buf[p] \in Seq(Text)
  /\ lineAt[p] = "line" => \E l \in Seq(Text) : l = Line!Front(Line!Seen(heard[p])) /\ buf[p] = Append(l, Line!Nul)

EditInv ==
  /\ rbr.new => rbr.char \in Line!Keys
  /\ heard \in [Procs -> Seq(Line!Keys)]
  /\ \A p \in Procs : Editing(p)

LEMMA EditStart == Line!Init => EditInv
<1> SUFFICES ASSUME Line!Init PROVE EditInv
  OBVIOUS
<1>1. /\ ~rbr.new /\ heard = [p \in Procs |-> <<>>] /\ buf = [p \in Procs |-> <<>>]
      /\ lineAt = [p \in Procs |-> "gets"]
  BY DEF Line!Init
<1>2. heard \in [Procs -> Seq(Line!Keys)]
  BY <1>1
<1>3. ASSUME NEW p \in Procs PROVE Editing(p)
  <2>1. lineAt[p] = "gets" /\ heard[p] = <<>> /\ buf[p] = <<>> /\ <<>> \in Seq(Text)
    BY <1>1
  <2> QED
    BY <2>1, NothingSeen DEF Editing
<1> QED
  BY <1>1, <1>2, <1>3 DEF EditInv

LEMMA EditType ==
  ASSUME EditInv, NEW k \in Line!Keys, Line!Type(k)
  PROVE EditInv'
<1>1. rbr' = [char |-> k, new |-> TRUE] /\ UNCHANGED <<lineAt, char, buf, heard>>
  BY DEF Line!Type
<1>2. \A p \in Procs : Editing(p)'
  BY <1>1 DEF EditInv, Editing
<1> QED
  BY <1>1, <1>2 DEF EditInv

LEMMA EditLock ==
  ASSUME LineInv, EditInv, NEW p \in Procs, Line!Lock(p) \/ Line!Poll(p)
  PROVE EditInv'
<1>1. /\ lineAt[p] \in {"gets", "poll"} /\ (Line!Goto(p, "poll") \/ Line!Goto(p, "read"))
      /\ UNCHANGED <<rbr, char, buf, heard>>
  BY DEF Line!Lock, Line!Poll
<1>2. lineAt'[p] \in {"poll", "read"} /\ \A q \in Procs \ {p} : lineAt'[q] = lineAt[q]
  BY <1>1, LineWent
<1>3. ASSUME NEW q \in Procs PROVE Editing(q)'
  <2>1. CASE q = p
    BY <1>1, <1>2, <2>1 DEF EditInv, Editing
  <2>2. CASE q # p
    BY <1>1, <1>2, <2>2 DEF EditInv, Editing
  <2> QED
    BY <2>1, <2>2
<1> QED
  BY <1>1, <1>3 DEF EditInv

LEMMA EditGet ==
  ASSUME LineInv, EditInv, NEW p \in Procs, Line!Get(p)
  PROVE EditInv'
<1> DEFINE h == heard[p]
           c == rbr.char
<1>1. /\ lineAt[p] = "read" /\ rbr' = [rbr EXCEPT !.new = FALSE]
      /\ char' = [char EXCEPT ![p] = c] /\ heard' = [heard EXCEPT ![p] = Append(@, c)]
      /\ Line!Goto(p, "edit") /\ UNCHANGED buf
  BY DEF Line!Get
<1>2. lineAt'[p] = "edit" /\ \A q \in Procs \ {p} : lineAt'[q] = lineAt[q]
  BY <1>1, LineWent
<1>3. /\ rbr.new /\ rbr \in [char : Line!Keys \cup {Line!Nul}, new : BOOLEAN]
      /\ char \in [Procs -> Line!Keys \cup {Line!Nul}]
  BY <1>1 DEF LineInv, ReadInv, Line!TypeOK
<1>4. c \in Line!Keys /\ heard \in [Procs -> Seq(Line!Keys)] /\ h \in Seq(Line!Keys) /\ Editing(p)
  BY <1>3 DEF EditInv
<1>5. ~rbr'.new
  BY <1>1, <1>3
<1>6. /\ Append(h, c) \in Seq(Line!Keys) /\ Append(h, c) # <<>>
      /\ Append(h, c)[Len(Append(h, c))] = c
  BY <1>4
<1>7. Line!Front(Append(h, c)) = h
  BY <1>4, FrontOfAppend
<1> HIDE DEF h, c
<1>8. heard' \in [Procs -> Seq(Line!Keys)] /\ heard'[p] = Append(h, c) /\ char'[p] = c
      /\ \A q \in Procs \ {p} : heard'[q] = heard[q] /\ char'[q] = char[q]
  BY <1>1, <1>3, <1>4, <1>6 DEF h
<1>9. ASSUME NEW q \in Procs PROVE Editing(q)'
  <2>1. CASE q = p
    <3>1. buf'[p] = Line!Seen(h) /\ buf'[p] \in Seq(Text)
      BY <1>1, <1>4 DEF Editing, h
    <3>2. Line!Front(heard'[p]) = h /\ heard'[p] # <<>> /\ char'[p] = heard'[p][Len(heard'[p])]
      BY <1>6, <1>7, <1>8
    <3> QED
      BY <1>2, <2>1, <3>1, <3>2 DEF Editing
  <2>2. CASE q # p
    <3>1. lineAt'[q] = lineAt[q] /\ heard'[q] = heard[q] /\ char'[q] = char[q] /\ buf'[q] = buf[q] /\ Editing(q)
      BY <1>1, <1>2, <1>8, <2>2 DEF EditInv
    <3> QED
      BY <3>1 DEF Editing
  <2> QED
    BY <2>1, <2>2
<1> QED
  BY <1>5, <1>8, <1>9 DEF EditInv

LEMMA EditEdit ==
  ASSUME LineInv, EditInv, NEW p \in Procs, Line!Edit(p)
  PROVE EditInv'
<1> DEFINE h == heard[p]
           c == char[p]
           b == buf[p]
<1>1. /\ lineAt[p] = "edit" /\ UNCHANGED <<rbr, char, heard>>
      /\ Line!Goto(p, IF c = Line!Cr THEN "line" ELSE "gets")
      /\ buf' = [buf EXCEPT ![p] = IF c = Line!Del THEN Line!Erased(@)
                                   ELSE Append(@, IF c = Line!Cr THEN Line!Nul ELSE c)]
  BY DEF Line!Edit
<1>2. lineAt'[p] = (IF c = Line!Cr THEN "line" ELSE "gets") /\ \A q \in Procs \ {p} : lineAt'[q] = lineAt[q]
  <2>1. (IF c = Line!Cr THEN "line" ELSE "gets") \in {"gets", "poll", "read", "edit", "line"}
    OBVIOUS
  <2> HIDE DEF c
  <2> QED
    BY <1>1, <2>1, LineWent
<1>3. /\ h \in Seq(Line!Keys) /\ h # <<>> /\ c = h[Len(h)] /\ c \in Line!Keys
      /\ b = Line!Seen(Line!Front(h)) /\ b \in Seq(Text)
  <2>1. Editing(p) /\ h \in Seq(Line!Keys)
    BY DEF EditInv
  <2>2. h # <<>> /\ c = h[Len(h)] /\ b = Line!Seen(Line!Front(h)) /\ b \in Seq(Text)
    BY <1>1, <2>1 DEF Editing
  <2> HIDE DEF h, c
  <2>3. h[Len(h)] \in Line!Keys
    BY <2>1, <2>2
  <2> QED
    BY <2>1, <2>2, <2>3
<1>4. Line!Seen(h) = Line!Erase(b, c)
  BY <1>3, SeenIs
<1>5. DOMAIN buf = Procs
  BY DEF LineInv, Line!TypeOK
<1>6. /\ buf'[p] = IF c = Line!Del THEN Line!Erased(b) ELSE Append(b, IF c = Line!Cr THEN Line!Nul ELSE c)
      /\ \A q \in Procs \ {p} : buf'[q] = buf[q]
  BY <1>1, <1>5
<1> HIDE DEF h, c, b
<1>7. Line!Del # Line!Cr
  BY DEF Line!Del, Line!Cr
<1>8. Editing(p)'
  <2>1. CASE c = Line!Del
    <3>1. Line!Erased(b) = Line!Erase(b, c) /\ Line!Erased(b) \in Seq(Text)
      BY <1>3, <2>1, FrontIs DEF Line!Erased, Line!Erase
    <3>2. buf'[p] = Line!Seen(heard[p]) /\ buf'[p] \in Seq(Text) /\ heard'[p] = heard[p]
      BY <1>1, <1>4, <1>6, <2>1, <3>1 DEF h
    <3> QED
      BY <1>2, <1>7, <2>1, <3>2 DEF Editing
  <2>2. CASE c = Line!Cr
    <3>1. Line!Seen(h) = Append(b, c)
      BY <1>4, <1>7, <2>2 DEF Line!Erase
    <3>2. Line!Front(Append(b, c)) = b
      <4>1. b \in Seq(Text \cup {c})
        BY <1>3
      <4> QED
        BY <4>1, FrontOfAppend
    <3>3. buf'[p] = Append(b, Line!Nul) /\ heard'[p] = h /\ lineAt'[p] = "line"
      BY <1>1, <1>2, <1>6, <1>7, <2>2 DEF h
    <3> QED
      BY <1>3, <3>1, <3>2, <3>3 DEF Editing
  <2>3. CASE c # Line!Del /\ c # Line!Cr
    <3>1. c \in Text
      BY <1>3, <2>3 DEF Line!Keys, Text
    <3>2. Line!Seen(h) = Append(b, c) /\ Append(b, c) \in Seq(Text)
      BY <1>3, <1>4, <2>3, <3>1 DEF Line!Erase
    <3>3. buf'[p] = Line!Seen(heard[p]) /\ buf'[p] \in Seq(Text) /\ heard'[p] = heard[p]
      BY <1>1, <1>6, <2>3, <3>2 DEF h
    <3> QED
      BY <1>2, <2>3, <3>3 DEF Editing
  <2> QED
    BY <2>1, <2>2, <2>3
<1>9. ASSUME NEW q \in Procs, q # p PROVE Editing(q)'
  <2>1. lineAt'[q] = lineAt[q] /\ heard'[q] = heard[q] /\ char'[q] = char[q] /\ buf'[q] = buf[q] /\ Editing(q)
    BY <1>1, <1>2, <1>6, <1>9 DEF EditInv
  <2> QED
    BY <2>1 DEF Editing
<1> QED
  BY <1>1, <1>8, <1>9 DEF EditInv

LEMMA EditExecute ==
  ASSUME LineInv, EditInv, NEW p \in Procs, Line!ExecuteCommands(p)
  PROVE EditInv'
<1>1. /\ Line!Goto(p, "gets") /\ buf' = [buf EXCEPT ![p] = <<>>]
      /\ heard' = [heard EXCEPT ![p] = <<>>] /\ UNCHANGED <<rbr, char>>
  BY DEF Line!ExecuteCommands
<1>2. lineAt'[p] = "gets" /\ \A q \in Procs \ {p} : lineAt'[q] = lineAt[q]
  BY <1>1, LineWent
<1>3. DOMAIN buf = Procs /\ heard \in [Procs -> Seq(Line!Keys)] /\ <<>> \in Seq(Line!Keys)
  BY DEF LineInv, Line!TypeOK, EditInv
<1>4. /\ heard' \in [Procs -> Seq(Line!Keys)] /\ heard'[p] = <<>> /\ buf'[p] = <<>>
      /\ \A q \in Procs \ {p} : heard'[q] = heard[q] /\ buf'[q] = buf[q]
  <2> DEFINE H == Seq(Line!Keys)
  <2>1. heard \in [Procs -> H] /\ <<>> \in H
    BY <1>3
  <2> HIDE DEF H
  <2>2. heard' \in [Procs -> H] /\ heard'[p] = <<>> /\ \A q \in Procs \ {p} : heard'[q] = heard[q]
    BY <1>1, <2>1
  <2>3. buf'[p] = <<>> /\ \A q \in Procs \ {p} : buf'[q] = buf[q]
    BY <1>1, <1>3
  <2> QED
    BY <2>2, <2>3 DEF H
<1>5. ASSUME NEW q \in Procs PROVE Editing(q)'
  <2>1. CASE q = p
    <3>1. <<>> \in Seq(Text)
      OBVIOUS
    <3> QED
      BY <1>2, <1>4, <2>1, <3>1, NothingSeen DEF Editing
  <2>2. CASE q # p
    <3>1. lineAt'[q] = lineAt[q] /\ heard'[q] = heard[q] /\ char'[q] = char[q] /\ buf'[q] = buf[q] /\ Editing(q)
      BY <1>1, <1>2, <1>4, <2>2 DEF EditInv
    <3> QED
      BY <3>1 DEF Editing
  <2> QED
    BY <2>1, <2>2
<1> QED
  BY <1>1, <1>4, <1>5 DEF EditInv

LEMMA EditStep == LineInv /\ EditInv /\ [Line!Next]_lineVars => EditInv'
<1> SUFFICES ASSUME LineInv, EditInv, [Line!Next]_lineVars PROVE EditInv'
  OBVIOUS
<1>1. CASE UNCHANGED lineVars
  BY <1>1 DEF lineVars, EditInv, Editing
<1>2. CASE Line!Next
  BY <1>2, EditType, EditLock, EditGet, EditEdit, EditExecute DEF Line!Next
<1> QED
  BY <1>1, <1>2

\* What the program is given, at the line that was seen.
LEMMA ArgsOfLine == LineInv /\ EditInv => ArgsAreWords
<1> SUFFICES ASSUME LineInv, EditInv, NEW p \in Procs, lineAt[p] = "line"
             PROVE LET l == Line!Front(Line!Seen(heard[p]))
                       Blanks == {i \in DOMAIN l : l[i] = Line!Space}
                       leftOver == /\ Line!Words(l) # <<>> /\ Len(l) \in Blanks
                                   /\ Line!Cardinality(Blanks) > Len(Line!Words(l))
                   IN Line!Args(buf[p]) = Line!Words(l) \o (IF leftOver THEN <<<<>>>> ELSE <<>>)
  BY DEF ArgsAreWords, Line!ArgsAreWords
<1>1. PICK l \in Seq(Text) : l = Line!Front(Line!Seen(heard[p])) /\ buf[p] = Append(l, Line!Nul)
  BY DEF EditInv, Editing
<1> DEFINE Blanks == {i \in DOMAIN l : l[i] = Line!Space}
           leftOver == Line!Words(l) # <<>> /\ Len(l) \in Blanks /\ Cardinality(Blanks) > Len(Line!Words(l))
<1>2. Line!Args(Append(l, Line!Nul)) = Line!Words(l) \o (IF leftOver THEN <<<<>>>> ELSE <<>>)
  BY LineArgs
<1>3. Line!Cardinality(Blanks) = Cardinality(Blanks)
  BY SameCardinality
<1> QED
  BY <1>1, <1>2, <1>3

----------------------------------------------------------------------------
(* The theorems about both.                                                *)

\* A behaviour is one of the disk or one of the console; the other rests.
LEMMA Each == DevicesSpec => []IInv /\ []LineInv /\ []EditInv
<1>1. DevicesInit => IInv /\ LineInv /\ EditInv
  BY Start, LineStart, EditStart DEF DevicesInit
<1>2. [DevicesNext]_allVars => [Next]_vars /\ [Line!Next]_lineVars
  BY DEF DevicesNext, OnDisk, allVars
<1>3. IInv /\ LineInv /\ EditInv /\ [DevicesNext]_allVars => (IInv /\ LineInv /\ EditInv)'
  BY <1>2, Step, LineStep, EditStep
<1> QED
  BY <1>1, <1>3, PTL DEF DevicesSpec

\* Both devices keep their types, and gets() writes inside of the buffer that it has
\* allocated, with its terminator, however the line was edited (libc.c:12-60).
THEOREM DevicesTyped == DevicesSpec => []DevicesTypeOK
<1>1. IInv /\ LineInv => DevicesTypeOK
  BY DEF IInv, LineInv, DevicesTypeOK
<1> QED
  BY <1>1, Each, PTL

\* Whoever shares the console, each character that was typed goes to one process, once
\* and in order (U8250::get, u8250.cc:14-22).
THEOREM ConsoleDeliversOnce == DevicesSpec => []EachCharacterOnce
<1>1. LineInv => EachCharacterOnce
  BY DEF LineInv, EachCharacterOnce
<1> QED
  BY <1>1, Each, PTL

\* A program is called with the words of the line that is left when every Del has taken
\* back a character, in their order, whatever was typed: strtok() squeezes the blanks out
\* and makeArgs() finds each word behind the last, and an empty one besides only where
\* blanks are left over behind it (libc.c:12-60, 112-168, shell.c:73-91).
THEOREM ProgramsGetTheWords == DevicesSpec => []ArgsAreWords
<1> QED
  BY ArgsOfLine, Each, PTL
=============================================================================
