------------------------------ MODULE NamesMC ------------------------------
\* An instance of Names: the root with a file "a" and a directory "d".
EXTENDS Names

MCTree == [i \in {1, 3} |-> IF i = 1 THEN <<[name |-> "a", ino |-> 2],
                                            [name |-> "d", ino |-> 3]>>
                            ELSE <<>>]

MCCalls ==
    {[call |-> c, path |-> <<"a">>, path2 |-> <<>>] :
        c \in {"open", "creat", "unlink", "stat", "chmod", "exec"}}
    \cup {[call |-> c, path |-> <<"d", "b">>, path2 |-> <<>>] :
        c \in {"mknod", "creat"}}
    \cup {[call |-> "exec", path |-> <<"d">>, path2 |-> <<>>],
          [call |-> "chdir", path |-> <<"/", "d">>, path2 |-> <<>>],
          [call |-> "link", path |-> <<"a">>, path2 |-> <<"d", "b">>]}
=============================================================================
