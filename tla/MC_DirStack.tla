---------------------------- MODULE MC_DirStack ----------------------------
(* A model root with a deck (and its cards) and a directory that cannot be *)
(* entered: root/deck/cards, root/sealed.                                  *)
EXTENDS DirStack

CONSTANTS root, deck, cards, sealed, nDeck, nCards, nSealed

MCDir  == {root, deck, cards, sealed}
MCName == {nDeck, nCards, nSealed}
MCChild ==
    [d \in MCDir |-> [n \in MCName |->
        CASE d = root /\ n = nDeck   -> deck
          [] d = root /\ n = nSealed -> sealed
          [] d = deck /\ n = nCards  -> cards
          [] OTHER -> NULL]]
=============================================================================
