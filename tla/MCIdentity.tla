----------------------------- MODULE MCIdentity -----------------------------
(* Sessions and Membership side by side: a behaviour is one of either, so the  *)
(* run explores the sum of the two state spaces.                              *)
EXTENDS Sessions, Membership, TLC

VARIABLE part

MCSecrets == {<<"a">>, <<"a", "_", "b">>, <<"b", "_">>}

MCInit == part \in {"sessions", "membership"} /\ SessionsInit /\ MembershipInit

MCNext ==
    \/ part = "sessions" /\ SessionsNext /\ UNCHANGED <<part, mvars>>
    \/ part = "membership" /\ MembershipNext /\ UNCHANGED <<part, svars>>

MCSpec == MCInit /\ [][MCNext]_<<part, svars, mvars>>

MCSymmetry ==
    Permutations(Sids) \union Permutations(Procs) \union Permutations(Workers)
        \union Permutations(InvIds) \union Permutations(People \ {Founder})
=============================================================================
