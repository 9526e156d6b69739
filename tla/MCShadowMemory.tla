--------------------------- MODULE MCShadowMemory ---------------------------
(* Instances of the shadow memory: one or two address spaces, each with a  *)
(* task or with two threads, a file, and a few frames of its own.          *)
EXTENDS ShadowMemoryProperties, TLC

CONSTANTS m1, m2, t1, t2, file1, file2, f1, f2, f3

OneMm == {m1}
TwoMm == {m1, m2}
OneTask == {t1}
TwoTasks == {t1, t2}
OwnMm == t1 :> m1 @@ t2 :> m2
SameMm == [t \in Task |-> m1]
TextPage == 1 :> file1
TextAfterStack == 2 :> file1
TwoFilePages == 1 :> file1 @@ 2 :> file2
NoFilePage == [p \in {} |-> file1]
TextFrames == {file1, f1, f2}
TwoFileFrames == {file1, file2, f1, f2}
OwnFrames == {f1, f2}
ProgramFrames == {file1, f1, f2, f3}

Anonymous == [kind |-> "anon", write |-> TRUE, exec |-> FALSE]
Text == [kind |-> "private", write |-> FALSE, exec |-> TRUE]
Data == [kind |-> "private", write |-> TRUE, exec |-> FALSE]
SharedFile == [kind |-> "shared", write |-> TRUE, exec |-> FALSE]
SharedRead == [kind |-> "shared", write |-> FALSE, exec |-> FALSE]

(* In no instance is a page both writable and executable.                  *)
TextThenFile == 1 :> {Text} @@ 2 :> {SharedFile, SharedRead, Data}
StackThenProgram == 1 :> {Anonymous} @@ 2 :> {Text, Data}
TwoAnonymous == 1 :> {Anonymous} @@ 2 :> {Anonymous}

(* With two pages to a window: text, stack and heap each in their own.     *)
TextStackHeap ==
  1 :> {Text} @@ 2 :> {} @@ 3 :> {Anonymous} @@ 4 :> {}
    @@ 5 :> {Anonymous} @@ 6 :> {Anonymous}

First == {1}
Second == {2}
Third == {3}

(* Frames without a file are interchangeable, and so are the address       *)
(* spaces, each with its task.                                             *)
Swap == m1 :> m2 @@ m2 :> m1 @@ t1 :> t2 @@ t2 :> t1
Symmetry == {p @@ q : p \in Permutations({f1, f2}),
                      q \in {Swap, [x \in DOMAIN Swap |-> x]}}
=============================================================================
