--------------------------- MODULE MCModuleLoader ---------------------------
(* The worlds of a few modules.                                            *)
EXTENDS ModuleLoader

CONSTANTS Names,    \* every name an import statement may use
          MaxImports

NoNames == [m \in Names |-> {}]

(* Every choice of import lists without repetition, all names libraries.   *)
Lists == {l \in BoundedSeq(Names, MaxImports) : \A j, k \in 1 .. Len(l) : l[j] = l[k] => j = k}
AllLibs == {[imports |-> f, libs |-> Names, declares |-> NoNames] : f \in [Names -> Lists]}

(* The entry imports two modules; some name is missing, declared by its    *)
(* importer or imported twice.                                             *)
Faulty ==
    LET Chain(a, b) == [m \in Names |-> IF m = Entry THEN <<a, b>>
                                        ELSE IF m = a THEN <<b>> ELSE <<>>]
        Twice(a, b) == [Chain(a, b) EXCEPT ![a] = <<b, b>>]
        pairs == {x \in Names \X Names : x[1] # x[2] /\ Entry \notin {x[1], x[2]}}
    IN  {[imports |-> Chain(x[1], x[2]), libs |-> Names \ {x[2]}, declares |-> NoNames] : x \in pairs}
        \cup {[imports |-> Chain(x[1], x[2]), libs |-> Names,
               declares |-> [NoNames EXCEPT ![x[1]] = {x[2]}]] : x \in pairs}
        \cup {[imports |-> Twice(x[1], x[2]), libs |-> Names, declares |-> NoNames] : x \in pairs}

SmallWorlds == AllLibs \cup Faulty
=============================================================================
