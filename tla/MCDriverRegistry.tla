-------------------------- MODULE MCDriverRegistry --------------------------
(* The instance of DriverRegistry that TLC checks.                         *)
EXTENDS DriverRegistry, TLC

MCFields == { "HAM", "VER", "own", Bad }

Value(tla, racing) == [object |-> TRUE, tla |-> tla, racing |-> racing]

Scalar == [object |-> FALSE, tla |-> << >>, racing |-> << >>]

Names == { Value(<< name >>, << >>) : name \in {"HAM", "VER"} }

Odd == { Value(<< "HAM" >>, << "own" >>), Value(<< >>, << "own" >>), Value(<< >>, << Bad >>),
         Value(<< Bad >>, << >>), Value(<< "HAM", "HAM" >>, << >>), Value(<< >>, << >>), Scalar }

Numbers == 1 .. 3

Members(values) == [number : Numbers, value : values] \cup [number : {NoNumber}, value : Names]

\* Up to two members of any kind, and up to four that are well formed.
MCPayloads ==
  [object : {TRUE}, members : BoundedSeq(Members(Names \cup Odd), 2)
                                \cup BoundedSeq([number : Numbers, value : Names], 3)
                                \cup [1 .. 4 -> [number : Numbers, value : {Value(<< "HAM" >>, << >>)}]]]
    \cup { [object |-> FALSE, members |-> << >>] }
=============================================================================
