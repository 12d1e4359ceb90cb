------------------------------ MODULE MCMaxLogin ------------------------------
(* Two windows of one session, and two accounts that share one phone number, *)
(* which is Anna's at first and may become Boris's: one account is known to  *)
(* the bot, the other has still to share its contact.                        *)
EXTENDS MaxLogin, TLC

CONSTANTS window1, window2, browser, anna, boris, phone, account1, account2, request1, request2

MCSessionOf == [b \in {window1, window2} |-> browser]
MCContactOf == [a \in {account1, account2} |-> phone]
MCKnown == account1 :> phone @@ account2 :> Null
MCLinked == {<<phone, anna>>}

\* Windows are alike, and so are the names of requests.
MCSymmetry == {w @@ r : w \in Permutations({window1, window2}), r \in Permutations({request1, request2})}
=============================================================================
