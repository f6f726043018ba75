----------------------------- MODULE MCServices -----------------------------
(* Four services of the server that share no state, each checked by itself on
   its own small instance: part says which one runs.  They share the model
   values, so that TLC has few permutations to try. *)
EXTENDS Profile, Friends, GameRooms, OAuth, TLC

VARIABLES part

\* players: one stroke hits the ball in front of a goal, one leaves it alone
MCStrokes ==
  {[paddle |-> [pos |-> 1, vel |-> 8], hit |-> TRUE, ball |-> [pos |-> 1, vel |-> 3]],
   [paddle |-> [pos |-> 4, vel |-> 0], hit |-> FALSE, ball |-> [pos |-> 6, vel |-> -2]]}
MCGuess == [pos |-> 9, vel |-> 0]
MCServe == -2

\* nobody asks to be its own friend
MCAskable == {p \in Users \X Users : p[1] # p[2]}

Symmetry ==
  Permutations(Accounts) \cup Permutations(Requests) \cup Permutations(Keys)
    \cup Permutations(Tags)

MCInit ==
  /\ part \in {"profile", "friends", "game", "oauth"}
  /\ ProfileInit /\ FriendsInit /\ GameInit /\ OAuthInit

MCNext ==
  /\ UNCHANGED part
  /\ \/ part = "profile" /\ ProfileNext /\ UNCHANGED <<friendsVars, gameVars, oauthVars>>
     \/ part = "friends" /\ FriendsNext /\ UNCHANGED <<profileVars, gameVars, oauthVars>>
     \/ part = "game" /\ GameNext /\ UNCHANGED <<profileVars, friendsVars, oauthVars>>
     \/ part = "oauth" /\ OAuthNext /\ UNCHANGED <<profileVars, friendsVars, gameVars>>

MCSpec == MCInit /\ [][MCNext]_<<part, profileVars, friendsVars, gameVars, oauthVars>>

\* Every variable of the four services has its type.
ServicesTypeOK == ProfileTypeOK /\ FriendsTypeOK /\ GameTypeOK /\ OAuthTypeOK

=============================================================================
