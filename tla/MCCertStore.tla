--------------------------- MODULE MCCertStore ---------------------------
(***************************************************************************)
(* CertStore with certificates of a few days, and the options of renew.    *)
(***************************************************************************)
EXTENDS CertStore

AllPaths  == {"cert", "privkey", "fullchain", "chain"}
SomePaths == {"privkey", "fullchain"}

NoFlags   == {}
TestFlags == {[Plain EXCEPT !.dry = TRUE], [Plain EXCEPT !.test = TRUE]}

\* --server with the staging URL, spelled otherwise than the preset spells it.
ServerFlags == TestFlags \union {[Plain EXCEPT !.server = "staging/"]}

(***************************************************************************)
(* Two states are one if they differ only in what is never read again: the *)
(* servers of generations that nothing holds, which are given new ones     *)
(* when they are used again, and the ages of all but the stored            *)
(* certificate and the one just obtained, the only ones that can decide    *)
(* whether a renewal is due.  (Served, which ServedValid reads, is not     *)
(* among them: a run with this view does not check it.)                    *)
(***************************************************************************)
View == <<store, installed, loaded, run, deleting, ran, faults,
          [g \in Held \ {None} |-> server[g]],
          [g \in {store["cert"], run.gen} \ {None} |-> left[g]]>>

(***************************************************************************)
(* More generations than the files, the install paths, the service and the *)
(* run hold, so that the model never lacks an unused one.                  *)
(***************************************************************************)
ASSUME GenerationsSuffice ==
    Cardinality(Gen) > Cardinality(Artifact) + Cardinality(Paths) + 3

=============================================================================
