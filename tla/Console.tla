------------------------------ MODULE Console ------------------------------
(***************************************************************************)
(* From the serial line to the arguments of a program: U8250::get, which    *)
(* processes poll under a mutex (u8250.cc), gets(), which edits a line in a *)
(* buffer that grows (libc.c), and strtok() and makeArgs(), which the shell *)
(* cuts the line up with (libc.c, shell.c).                                *)
(*                                                                         *)
(* The mutex is the queue of those who have asked for it, its head holds it *)
(* (see MutexIsFifoLock in ProcessLock). Echoing is left out.               *)
(*                                                                         *)
(* An operator whose name ends in Mutant is a wrong version of the one that *)
(* follows it; no specification uses it (see README.md).                   *)
(***************************************************************************)
EXTENDS Integers, Sequences, FiniteSets, SequencesExt, FiniteSetsExt

CONSTANTS
  Procs,     \* processes that read lines
  Letters,   \* printable characters other than the blank
  Grow,      \* 10: how much gets() enlarges its buffer by
  MaxTyped   \* bound: how many characters are typed

Space == " "
Del == "del"   \* 127
Cr == "cr"     \* 13
Nul == "nul"
Keys == Letters \cup {Space, Del, Cr}

\* MCDevices assumes it.
ConsoleAssumption ==
  /\ Grow \in Nat \ {0} /\ MaxTyped \in Nat
  /\ Letters \cap {Space, Del, Cr, Nul} = {}

VARIABLES
  rbr,    \* the UART's receive register, and whether it holds a new character
  mutex,  \* U8250::getMutex
  at,     \* where a process is
  char,   \* the character it was given
  buf,    \* gets(): the first characters of the buffer
  sz,     \* gets(): its size, less 1
  typed,  \* (history) what was typed
  taken,  \* (history) what processes were given, in order
  heard   \* (history) what p was given since its last line

vars == <<rbr, mutex, at, char, buf, sz, typed, taken, heard>>

Init ==
  /\ rbr = [char |-> Nul, new |-> FALSE]
  /\ mutex = <<>>
  /\ at = [p \in Procs |-> "gets"]
  /\ char = [p \in Procs |-> Nul]
  /\ buf = [p \in Procs |-> <<>>]
  /\ sz = [p \in Procs |-> 0]
  /\ typed = <<>> /\ taken = <<>>
  /\ heard = [p \in Procs |-> <<>>]

Goto(p, loc) == at' = [at EXCEPT ![p] = loc]

\* A key is struck when the last one has been read: the line waits.
Type(k) ==
  /\ ~rbr.new /\ Len(typed) < MaxTyped
  /\ rbr' = [char |-> k, new |-> TRUE]
  /\ typed' = Append(typed, k)
  /\ UNCHANGED <<mutex, at, char, buf, sz, taken, heard>>

\* U8250::get: lock, poll the line status register, read the receive register, unlock.
Lock(p) ==
  /\ at[p] = "gets"
  /\ mutex' = Append(mutex, p)
  /\ Goto(p, "poll")
  /\ UNCHANGED <<rbr, char, buf, sz, typed, taken, heard>>

HoldsMutant(p) == TRUE
Holds(p) == Head(mutex) = p

Poll(p) ==
  /\ at[p] = "poll" /\ Holds(p) /\ rbr.new
  /\ Goto(p, "read")
  /\ UNCHANGED <<rbr, mutex, char, buf, sz, typed, taken, heard>>

Get(p) ==
  /\ at[p] = "read"
  /\ rbr' = [rbr EXCEPT !.new = FALSE]
  /\ mutex' = Tail(mutex)
  /\ char' = [char EXCEPT ![p] = rbr.char]
  /\ taken' = Append(taken, rbr.char)
  /\ heard' = [heard EXCEPT ![p] = Append(@, rbr.char)]
  /\ Goto(p, "edit")
  /\ UNCHANGED <<buf, sz, typed>>

\* gets(): the buffer is enlarged when it is full, before a character goes into it.
RoomMutant(p) == IF Len(buf[p]) > sz[p] THEN sz[p] + Grow ELSE sz[p]
Room(p) == IF Len(buf[p]) >= sz[p] THEN sz[p] + Grow ELSE sz[p]

Erased(b) == IF b = <<>> THEN b ELSE Front(b)

Edit(p) ==
  /\ at[p] = "edit"
  /\ IF char[p] = Del
       THEN /\ buf' = [buf EXCEPT ![p] = Erased(@)]
            /\ UNCHANGED sz
       ELSE /\ buf' = [buf EXCEPT ![p] = Append(@, IF char[p] = Cr THEN Nul ELSE char[p])]
            /\ sz' = [sz EXCEPT ![p] = Room(p)]
  /\ Goto(p, IF char[p] = Cr THEN "line" ELSE "gets")
  /\ UNCHANGED <<rbr, mutex, char, typed, taken, heard>>

-----------------------------------------------------------------------------
(* Cutting up a line. A string is a sequence that Nul ends; the blanks       *)
(* before a word are squeezed out in place and a Nul is put behind it.      *)

\* The first place from i on where the string has, or has not, one of chars.
At(s, i, chars) == Min({k \in i .. Len(s) : s[k] \in chars})
Past(s, i, chars) == Min({k \in i .. Len(s) : s[k] \notin chars})

\* trimWord(&s[i]): the string after the call, and how far it is to the next word: 0
\* when the string is over.
TrimWordMutant(s, i) ==
  LET end == At(s, i, {Space, Nul})
  IN [s |-> [s EXCEPT ![end] = Nul], chars |-> IF s[end] = Nul THEN 0 ELSE end - i + 1]
TrimWord(s, i) ==
  LET from == Past(s, i, {Space})
      end == At(s, from, {Space, Nul})
      n == end - from
      moved(k) == IF k \in i .. i + n - 1 THEN s[k + from - i]
                  ELSE IF k = i + n THEN Nul
                  ELSE IF k \in from .. end - 1 THEN Space
                  ELSE s[k]
  IN IF s[i] = Nul THEN [s |-> s, chars |-> 0]
     ELSE [s |-> [k \in 1 .. Len(s) |-> moved(k)], chars |-> IF s[end] = Nul THEN 0 ELSE n + 1]

\* isNotEmptyString
IsNotEmptyString(s) == At(s, 1, {Nul}) > Past(s, 1, {Space})

\* strtok: the string after the call and the number of words, or 0. A word after the
\* other is trimmed; next is where the next one begins, 0 behind the last.
Cut(s) ==
  LET after[n \in 0 .. Len(s)] ==
        IF n = 0 THEN [s |-> s, next |-> 1, tokens |-> 0]
        ELSE LET c == after[n - 1]
                 t == TrimWord(c.s, c.next)
                 next == c.next + t.chars
             IN IF c.next = 0 THEN c
                ELSE [s |-> t.s, tokens |-> c.tokens + 1,
                      next |-> IF t.chars # 0 /\ t.s[next] # Nul THEN next ELSE 0]
  IN after[Len(s)]
StrTok(s) == IF IsNotEmptyString(s) THEN Cut(s) ELSE [s |-> s, tokens |-> 0]

\* makeArgs: argv points at the strings that follow one another.
MakeArgs(argc, s) ==
  LET arg[n \in 1 .. argc] == IF n = 1 THEN 1 ELSE At(s, arg[n - 1], {Nul}) + 1
  IN [n \in 1 .. argc |-> SubSeq(s, arg[n], At(s, arg[n], {Nul}) - 1)]

\* executeCommands
Args(line) == LET t == StrTok(line) IN MakeArgs(t.tokens, t.s)

\* The command runs, the line is freed, and the shell asks for the next.
ExecuteCommands(p) ==
  /\ at[p] = "line"
  /\ Goto(p, "gets")
  /\ buf' = [buf EXCEPT ![p] = <<>>]
  /\ sz' = [sz EXCEPT ![p] = 0]
  /\ heard' = [heard EXCEPT ![p] = <<>>]
  /\ UNCHANGED <<rbr, mutex, char, typed, taken>>

Next ==
  \/ \E k \in Keys : Type(k)
  \/ \E p \in Procs : Lock(p) \/ Poll(p) \/ Get(p) \/ Edit(p) \/ ExecuteCommands(p)

Spec == Init /\ [][Next]_vars

-----------------------------------------------------------------------------
\* What gets() writes is inside its buffer of sz + 1 bytes (0 before the first).
TypeOK ==
  /\ rbr.char \in Keys \cup {Nul} /\ rbr.new \in BOOLEAN
  /\ mutex \in Seq(Procs)
  /\ at \in [Procs -> {"gets", "poll", "read", "edit", "line"}]
  /\ char \in [Procs -> Keys \cup {Nul}]
  /\ buf \in [Procs -> Seq(Letters \cup {Space, Nul})]
  /\ \A p \in Procs : sz[p] \in Nat /\ Len(buf[p]) <= (IF sz[p] = 0 THEN 0 ELSE sz[p] + 1)
  /\ typed \in Seq(Keys) /\ taken \in Seq(Keys \cup {Nul})

\* However many processes read the console, every character goes to one of them, once
\* and in the order of typing (u8250.cc:14).
EachCharacterOnce == typed = taken \o (IF rbr.new THEN <<rbr.char>> ELSE <<>>)

\* A line, as the person at the keyboard sees it: a Del takes back the last character
\* that is left.
Erase(l, k) == IF k # Del THEN Append(l, k) ELSE IF l = <<>> THEN l ELSE Front(l)
Seen(keys) ==
  LET seen[n \in 0 .. Len(keys)] == IF n = 0 THEN <<>> ELSE Erase(seen[n - 1], keys[n])
  IN seen[Len(keys)]

\* The words of a line: its longest parts without blanks.
Words(l) ==
  LET Starts == {i \in DOMAIN l : l[i] # Space /\ (i = 1 \/ l[i - 1] = Space)}
      End(i) == Max({j \in i .. Len(l) : \A k \in i .. j : l[k] # Space})
  IN [n \in 1 .. Cardinality(Starts) |->
        LET i == CHOOSE x \in Starts : Cardinality({y \in Starts : y <= x}) = n
        IN SubSeq(l, i, End(i))]

\* The program gets the words that were typed, and an empty one besides when the line
\* ends with a blank and has more blanks than words: those that were squeezed out are
\* then still behind the last word (libc.c:112-168, shell.c:73-91).
ArgsAreWords ==
  \A p \in Procs : at[p] = "line" =>
    LET l == Front(Seen(heard[p]))
        Blanks == {i \in DOMAIN l : l[i] = Space}
        leftOver == Words(l) # <<>> /\ Len(l) \in Blanks /\ Cardinality(Blanks) > Len(Words(l))
    IN Args(buf[p]) = Words(l) \o (IF leftOver THEN <<<<>>>> ELSE <<>>)
=============================================================================
