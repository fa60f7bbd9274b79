------------------------------ MODULE MCSkills ------------------------------
\* Instances of Skills for TLC.
EXTENDS Skills

\* Skills: a builtin skill "a" that is always active or lacks what it requires,
\* a package's "b", whose directory may be called "a" or be missing, and two
\* packages whose directories are both called "a"; an agent writes an empty
\* SKILL.md, one that declares a tool, or none.
FrontOf(a, ts, m) ==
  [there |-> TRUE, blank |-> FALSE, always |-> a, tools |-> ts, met |-> m]
BlankFront == [NoFront EXCEPT !.there = TRUE, !.blank = TRUE]
Directory(f, h, n) == [dir |-> TRUE, front |-> f, hook |-> h, called |-> n, nth |-> 0]
FromPackage(n) == [Directory(FrontOf(FALSE, {"u"}, TRUE), TRUE, "a") EXCEPT !.nth = n]
SmallShelves ==
  {[builtin |-> [n \in {"a", "b"} |-> IF n = "a" THEN x ELSE NoDir("b")],
    package |-> [n \in {"a", "b"} |-> IF n = "b" THEN y ELSE NoDir("a")]] :
     x \in {Directory(FrontOf(TRUE, {"t"}, TRUE), TRUE, "a"),
            Directory(FrontOf(TRUE, {"t"}, FALSE), FALSE, "a")},
     y \in {Directory(FrontOf(FALSE, {"u"}, TRUE), TRUE, d) : d \in {"a", "b"}}
            \cup {NoDir("b"), [NoDir("b") EXCEPT !.front = FrontOf(FALSE, {"u"}, TRUE)]}}
  \cup {[builtin |-> [n \in {"a", "b"} |-> NoDir(n)],
          package |-> [n \in {"a", "b"} |-> FromPackage(IF n = first THEN 1 ELSE 2)]] :
           first \in {"a", "b"}}
SmallWrites ==
  {[front |-> f, hook |-> h] : f \in {NoFront, BlankFront, FrontOf(FALSE, {"u"}, TRUE)},
                               h \in BOOLEAN}
=============================================================================
