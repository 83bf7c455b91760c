---------------------------- MODULE MC_TreeWalk ----------------------------
(* A small model root: root/deck/cards/note, root/sealed/note, root/note.  *)
EXTENDS TreeWalk

CONSTANTS root, deck, cards, sealed, nDeck, nCards, nSealed, note

MCDir  == {root, deck, cards, sealed}
MCName == {nDeck, nCards, nSealed}
MCChild ==
    [d \in MCDir |-> [n \in MCName |->
        CASE d = root /\ n = nDeck   -> deck
          [] d = root /\ n = nSealed -> sealed
          [] d = deck /\ n = nCards  -> cards
          [] OTHER -> NULL]]
MCFiles == [d \in MCDir |-> IF d = deck THEN {} ELSE {note}]
=============================================================================
