---------------------------- MODULE MCCommandLines ----------------------------
(* Small vocabularies: each kind of line has the words one part of the grammar
   turns on. *)
EXTENDS CommandLines

Words(ws) == {KeyWord(w) : w \in ws}
Marks(cs) == {Separator(c) : c \in cs}
Text(t) == [ch |-> "String", txt |-> t]
Number == [ch |-> "Number", txt |-> "5"]

MCVocabulary ==
    [one     |-> Words({"ACTIVATE", "DELETE", "RECURSIVE", "EXIT", "COMMIT", "HOLD", "ECHO"})
                 \cup Marks({":"}) \cup {Text("x"), Text("y")},
     two     |-> Words({"MOUNT", "RENAME", "NAME", "CONVERT", "C", "CREATE", "V"})
                 \cup Marks({":", ",", "="}) \cup {Text("x")},
     pairs   |-> Words({"SET", "MOUNT", "MB"}) \cup Marks({":", ",", "=", "(", ")"})
                 \cup {Text("x"), Number},
     expand  |-> Words({"EXPAND"}) \cup Marks({":", ",", "="}) \cup {Text("x"), Text("y")},
     plugins |-> Words({"FORMAT", "ADD", "FEATURE"}) \cup Marks({":", ",", "=", "{", "}"})
                 \cup {Text("x"), Number},
     filters |-> Words({"QUERY", "VOLUMES", "EQ", "MB", "LIST", "OPTIONS", "TYPE"})
                 \cup Marks({":", ",", "="}) \cup {Number},
     queries |-> Words({"QUERY", "SHRINK", "POINTS", "EI", "ACCEPTABLE", "E", "DISKS", "D"})
                 \cup Marks({":", ",", "="}) \cup {Text("x")},
     help    |-> Words({"HELP", "DELETE", "RECURSIVE", "EXIT", "ADD", "SEGMENT", "MANAGER"})
                 \cup Marks({":"}) \cup {Text("x")}]

MCMaxTokens == [one |-> 9, two |-> 11, pairs |-> 12, expand |-> 12, plugins |-> 13,
                filters |-> 11, queries |-> 10, help |-> 9]
=============================================================================
