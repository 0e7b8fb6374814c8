--------------------------- MODULE AccessControl ---------------------------
(***************************************************************************)
(* What accounts and permissions promise together: a file is read, written,  *)
(* created and chmod-ed only for a user who has given a password and whom   *)
(* the permissions of the file allow it. Nothing is said of processes, or   *)
(* of the numbers that they carry around.                                  *)
(***************************************************************************)
CONSTANTS
  Persons,   \* users
  Account,   \* the uid and gid of each
  Contents,  \* the permission bits of each class of users: any value of this set
  Default,   \* those of a new file
  Nothing    \* there is no file of this name

VARIABLES
  inode,     \* for each name, its file: uid, gid, bits and marks, or Nothing
  writer,    \* for each name, who wrote the file last, or Nothing
  seen       \* the <<user, name>> such that the user has read the file

Superuser(u) == Account[u].uid = 0
Owns(u, f) == Account[u].uid = inode[f].uid

\* One class of bits decides: the owner's, also for root; the group's; the others'.
Allowed(u, f, right) ==
  /\ inode[f] # Nothing
  /\ \/ (Owns(u, f) \/ Superuser(u)) /\ right \in inode[f].bits.owner
     \/ /\ ~Owns(u, f) /\ ~Superuser(u)
        /\ \/ Account[u].gid = inode[f].gid /\ right \in inode[f].bits.group
           \/ Account[u].gid # inode[f].gid /\ right \in inode[f].bits.others

\* What u has seen grows by files that u may read.
Looks(u) ==
  /\ seen \subseteq seen'
  /\ \A r \in seen' \ seen : r[1] = u /\ Allowed(u, r[2], "r")

Reads(u) == Looks(u) /\ UNCHANGED <<inode, writer>>

Writes(u, f) ==
  /\ Allowed(u, f, "w")
  /\ writer' = [writer EXCEPT ![f] = u]
  /\ Looks(u)
  /\ UNCHANGED inode

Creates(u, f) ==
  /\ inode[f] = Nothing
  /\ inode' = [inode EXCEPT ![f] =
       [uid |-> Account[u].uid, gid |-> Account[u].gid, bits |-> Default, marks |-> {}]]
  /\ UNCHANGED <<writer, seen>>

\* The marks of an executable cannot be changed.
Chmods(u, f) ==
  /\ inode[f] # Nothing
  /\ Owns(u, f) \/ Superuser(u)
  /\ \E b \in Contents : inode' = [inode EXCEPT ![f].bits = b]
  /\ UNCHANGED <<writer, seen>>

AccessNext ==
  \E u \in Persons :
    Reads(u) \/ \E f \in DOMAIN inode : Writes(u, f) \/ Creates(u, f) \/ Chmods(u, f)

AccessInit == seen = {} /\ writer = [f \in DOMAIN inode |-> Nothing]

AccessSpec == AccessInit /\ [][AccessNext]_<<inode, writer, seen>>
=============================================================================
