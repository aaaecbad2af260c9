----------------------------- MODULE MCDownload -----------------------------
(***************************************************************************)
(* Download for TLC.                                                       *)
(***************************************************************************)
EXTENDS Download

Opt(f, n, s) == [force |-> f, forbid |-> n, save |-> s]

\* All that a user can choose: CT_FORCE_DOWNLOAD is not offered with
\* CT_FORBID_DOWNLOAD.
AllOptions  == {Opt(f, FALSE, s) : f, s \in BOOLEAN}
MayForbid   == {Opt(FALSE, n, TRUE) : n \in BOOLEAN}
EveryOption == AllOptions \cup MayForbid

\* A tarball from a URL.
OneFile  == {"gcc"}
OnePlan  == <<"gcc">>
\* One that CT_GetCVS gets.
CVSFile  == {"newlib"}
CVSPlan  == <<"newlib">>
NoFiles  == {}
\* The two kinds.
BothFiles   == {"gcc", "newlib"}
BothPlan    == <<"gcc", "newlib">>
=============================================================================
