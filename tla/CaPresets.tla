------------------------------ MODULE CaPresets ------------------------------
(***************************************************************************)
(* Which CA a name, a URL and --test stand for, and whether an account     *)
(* there needs an External Account Binding.  A URL is its text without the *)
(* trailing slashes, and how many of those it has.                         *)
(***************************************************************************)
EXTENDS Naturals, Sequences

CONSTANTS
    Presets,    \* the table: names, directories, eab_required
    None        \* no value

Url == [base : STRING, slashes : Nat]

ASSUME PresetsAssumption ==
    /\ Presets \in Seq([name : STRING, directory : Url, eab : BOOLEAN])
    /\ Presets # << >>
    /\ \A i, j \in DOMAIN Presets :
          i # j => /\ Presets[i].name # Presets[j].name
                   /\ Presets[i].directory.base # Presets[j].directory.base
ASSUME StagingAssumption == \E i \in DOMAIN Presets : Presets[i].name = "letsencrypt-staging"
ASSUME DefaultAssumption == Presets[1].eab = FALSE
ASSUME NoneAssumption ==
    None \notin [name : STRING, directory : Url, eab : BOOLEAN] \union STRING \union Url

-----------------------------------------------------------------------------

\* The first row of `rows`, which are indices of the table.
First(rows) ==
    IF rows = {} THEN None ELSE Presets[CHOOSE i \in rows : \A j \in rows : i <= j]

Find(name) == First({i \in DOMAIN Presets : Presets[i].name = name})

FindByDirectory(url) ==
    First({i \in DOMAIN Presets : Presets[i].directory.base = url.base})

Default == Presets[1]

Staging ==
    IF Find("letsencrypt-staging") = None THEN Default ELSE Find("letsencrypt-staging")

IsLetsEncrypt(preset) == preset.name \in {"letsencrypt", "letsencrypt-staging"}

-----------------------------------------------------------------------------

(***************************************************************************)
(* What issue asks for, from the name and the URL of the settings.         *)
(***************************************************************************)
EabRequired(ca, url) ==
    IF ca # None /\ Find(ca) # None THEN Find(ca).eab
    ELSE FindByDirectory(url) # None /\ FindByDirectory(url).eab

(***************************************************************************)
(* What the flags of issue and register mean: None is an error, of a name  *)
(* that is not in the table, or of --test for another CA.                  *)
(***************************************************************************)
Inferred(ca, url) ==
    IF ca # None THEN Find(ca)
    ELSE IF url # None /\ FindByDirectory(url) # None THEN FindByDirectory(url)
    ELSE Default

Effective(ca, url, test) == IF test THEN Staging ELSE Inferred(ca, url)

Resolve(ca, url, test) ==
    IF \/ Inferred(ca, url) = None
       \/ test /\ ~IsLetsEncrypt(Inferred(ca, url))
    THEN None
    ELSE LET preset == Effective(ca, url, test)
         IN  [name      |-> IF ca = None THEN None ELSE preset.name,
              directory |-> IF test \/ url = None THEN preset.directory ELSE url,
              eab       |-> preset.eab]

-----------------------------------------------------------------------------

(***************************************************************************)
(* The table of the code.                                                  *)
(***************************************************************************)
Row(name, base, eab) ==
    [name |-> name, directory |-> [base |-> base, slashes |-> 0], eab |-> eab]

PRESETS == <<
    Row("letsencrypt", "acme-v02.api.letsencrypt.org/directory", FALSE),
    Row("letsencrypt-staging", "acme-staging-v02.api.letsencrypt.org/directory", FALSE),
    Row("zerossl", "acme.zerossl.com/v2/DV90", TRUE),
    Row("google", "dv.acme-v02.api.pki.goog/directory", TRUE),
    Row("sslcom", "acme.ssl.com/sslcom-dv-ecc", TRUE),
    Row("sslcom-rsa", "acme.ssl.com/sslcom-dv-rsa", TRUE),
    Row("buypass", "api.buypass.com/acme/directory", FALSE),
    Row("buypass-test", "api.test4.buypass.no/acme/directory", FALSE),
    Row("sectigo", "acme.sectigo.com/v2/DV", TRUE) >>

=============================================================================
