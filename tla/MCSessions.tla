----------------------------- MODULE MCSessions -----------------------------
\* The accounts of src/user/passwd and the files of src/fat439/fs.conf, one of a kind.
EXTENDS Sessions, TLC

Account(u, g) == [uid |-> u, gid |-> g]
Accounts == [root |-> Account(0, 0), cheng |-> Account(1, 1), nobody |-> Account(32767, 9999)]

Mode(o, g, a) == [owner |-> o, group |-> g, others |-> a]
Program == Mode({"r", "x"}, {"r", "x"}, {"x"})
Conf(u, g, bits, marks) == [uid |-> u, gid |-> g, bits |-> bits, marks |-> marks]

Image ==
  [f \in {"shell", "cat", "cp", "ls"} |-> Conf(0, 0, Program, {})] @@
  [f \in {"chmod", "test"} |-> Conf(0, 1, Program, {})] @@
  [f \in {"login", "su"} |-> Conf(0, 0, Program, Marks)] @@
  [f \in {"passwd", "group", "hosts"} |-> Conf(0, 0, Mode({"r"}, {"r"}, {"r"}), {})] @@
  [f \in {"hello.txt"} |-> Conf(0, 1, Mode({"r", "w"}, {"r", "w"}, {}), {})]

ModeTable == [none |-> Mode({}, {}, {}), secret |-> Mode({"r", "w"}, {}, {})]

Line(file, from, to) == [file |-> file, from |-> from, to |-> to]
CommandLines ==
  { Line("su", NoArg, "root"), Line("su", NoArg, "cheng"), Line("login", NoArg, NoArg),
    Line("cat", "hello.txt", NoArg), Line("cp", "hello.txt", "new"), Line("test", NoArg, "new"),
    Line("chmod", "secret", "new"), Line("chmod", "none", "shell"),
    Line("chmod", "none", "passwd"), Line("ls", NoArg, NoArg) }
=============================================================================
