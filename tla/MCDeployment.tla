---------------------------- MODULE MCDeployment ----------------------------
(***************************************************************************)
(* Deployments for TLC: two organisations want the same identifier, a      *)
(* third one has no credits.                                               *)
(***************************************************************************)
EXTENDS Deployment, TLC

CONSTANTS o1, o2, o3, t, s2

\* The second instance brings another password than the one the server knows.
Rotated == <<OwnSecret, s2>>

\* A role without a password, or with the one the server knows.
Inherited == {None, OwnSecret}

Credits == o1 :> 1 @@ o2 :> 0

\* Requests on one identifier, which may meet the migrations on their way.
Asked ==
  <<{Create(o1, t, 1), Read(o1, t), Health},
    {Create(o1, t, 1), Create(o2, t, 1), Create(o3, t, 1), Create(o1, t, -1),
     Read(o1, t), Read(o2, t)}>>

=============================================================================
