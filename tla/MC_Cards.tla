------------------------------ MODULE MC_Cards ------------------------------
(* A model root with one deck of two cards, home/root/deck/cards/{c1,c2},  *)
(* called from the root's parent or from the deck itself.  A behaviour is  *)
(* about the time files or about the directories: with both at once there  *)
(* are more states than can be checked.                                   *)
EXTENDS Cards

VARIABLE aboutFiles   \* which of the two, chosen at the beginning

CONSTANTS home, root, deck, cards, c1, c2, nRoot, nDeck, nCards, n1, n2

MCDir  == {home, root, deck, cards, c1, c2}
MCName == {nRoot, nDeck, nCards, n1, n2}
MCChild ==
    [d \in MCDir |-> [n \in MCName |->
        CASE d = home /\ n = nRoot   -> root
          [] d = root /\ n = nDeck   -> deck
          [] d = deck /\ n = nCards  -> cards
          [] d = cards /\ n = n1     -> c1
          [] d = cards /\ n = n2     -> c2
          [] OTHER -> NULL]]

NoPlainFiles == [d \in MCDir |-> {}]

November == [year |-> 2017, month |-> 11, day |-> 30, hour |-> 23, minute |-> 59]
December == [year |-> 2017, month |-> 12, day |-> 1, hour |-> 0, minute |-> 0]
\* Two consecutive minutes.
MCMoments == {November, December}

Day(month) == [year |-> 2017, month |-> month, day |-> 1, hour |-> 0, minute |-> 0]
Old == Day(3)

InOrder == [added |-> Old, scheduled |-> Day(4)]
NewCards == {[added |-> Garbage, scheduled |-> Garbage], [added |-> Old, scheduled |-> Garbage]}
Deck(first) == [d \in MCDir |-> CASE d = c1 -> first [] d = c2 -> InOrder [] OTHER -> NoFiles]
MCInitialFiles == {Deck(first) : first \in NewCards \cup {InOrder}}

\* What an editor leaves: another time, something else, nothing.
MCEditorWrites == {Day(7), Garbage, Missing}

\* The first card is new, so that not all its files can be read, and may come
\* and go; only its files are ever edited, or fail.
FilesOnly == spoiled' \subseteq {c1} /\ Dir \ {c1} \subseteq present'
\* Both cards are in order, and the clock stands still.
DirectoriesOnly == spoiled' = {} /\ card'.when_next_scheduled # December

MCInit == CardsInit /\ aboutFiles = (files # Deck(InOrder))
MCNext == /\ CardsNext
          /\ IF aboutFiles THEN FilesOnly ELSE DirectoriesOnly
          /\ UNCHANGED aboutFiles
MCSpec == MCInit /\ [][MCNext]_<<everything, aboutFiles>> /\ WF_everything(Library)
=============================================================================
