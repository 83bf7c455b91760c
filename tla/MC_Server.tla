------------------------------ MODULE MC_Server ------------------------------
(* The server's directory, a model in it, and a deck in the model, whose     *)
(* name leads from home and the model alike.                                 *)
EXTENDS Server

CONSTANTS home, A, deck, same, x, y

MCChild == [d \in Dir |-> [n \in Name |->
              CASE d = home -> A [] d = A -> deck [] OTHER -> NULL]]

Model  == [git |-> [index |-> {Meta}, born |-> TRUE], files |-> {Meta, DecksMeta}]
MCDisk == {[d \in Dir |-> IF d = A THEN Model ELSE Nothing]}

Schedule1 == <<x, LF, LF, x, y>>
Schedule2 == <<y, LF, x, CR, LF>>

MCEdits == {[at |-> Number(3), schedule |-> Schedule1],
            [at |-> Number(2), schedule |-> Schedule2],
            [at |-> Number(3), schedule |-> Schedule2],
            [at |-> Number(INT32_MAX), schedule |-> Schedule2],
            [at |-> NoDigits, schedule |-> <<>>]}
MCStudy == {[d \in Dir |-> IF d = deck THEN [at |-> Number(2), schedule |-> Schedule1]
                           ELSE NoStudy]}
MCRoots == {same, deck, NULL}
MCDecks == {deck, same}
=============================================================================
