----------------------------- MODULE Translator -----------------------------
(***************************************************************************)
(* Translator (localization.cpp): which catalogs are taken, which one is   *)
(* selected, and what a key is translated to.  A text is the set of        *)
(* placeholders in it; a catalog is a function from keys to texts.         *)
(*                                                                         *)
(* A warning is its code and the key it is about.  add_warning() compares  *)
(* these two and nothing else, so the list of warnings is a set.           *)
(***************************************************************************)
CONSTANTS
    Sources,  \* the embedded files: [file, code, valid, strings]
    English,  \* "en"
    NoKey,    \* for a warning that is about no key
    Unmatched \* a text whose braces do not match

\* placeholders() throws nothing.
WellFormed(text) == text # Unmatched

\* valid: the file parses, has the metadata, and its strings are strings.
Accepted ==
    {s \in Sources : /\ s.valid /\ s.file = s.code
                     /\ \A key \in DOMAIN s.strings : WellFormed(s.strings[key])}

ASSUME OneFilePerName == \A s, t \in Sources : s.file = t.file => s = t
ASSUME EnglishIsThere == \E s \in Accepted : s.code = English

Languages == {s.code : s \in Accepted}

ASSUME NoneIsNoLanguage == "none" \notin Languages

Catalog(code) == (CHOOSE s \in Accepted : s.code = code).strings
EnglishTexts == Catalog(English)

Warning(code, key) == [code |-> code, key |-> key]

Selected(wanted) == IF wanted \in Languages THEN wanted ELSE English

\* Mutant: placeholders are not compared.
NothingMismatched(language) == {}

\* invalid_placeholders_
Mismatched(language) ==
    {key \in DOMAIN Catalog(language) \cap DOMAIN EnglishTexts :
        Catalog(language)[key] # EnglishTexts[key]}

\* The warnings of the constructor.
FirstWarnings(wanted) ==
    {Warning("invalid_catalog", NoKey) : s \in Sources \ Accepted}
    \cup (IF wanted \in Languages THEN {} ELSE {Warning("language_not_found", NoKey)})
    \cup {Warning("placeholder_mismatch", key) : key \in Mismatched(Selected(wanted))}

\* template_for(): the catalog a key's text is taken from, or "none".
Origin(language, key) ==
    IF key \in DOMAIN Catalog(language) \ Mismatched(language) THEN language
    ELSE IF key \in DOMAIN EnglishTexts THEN English
    ELSE "none"

\* render() finds a value for every placeholder.
Renders(text, values) == text \subseteq values

\* translate(), with what it adds to the warnings; values are the names given.
Translation(language, key, values) ==
    LET origin == Origin(language, key)
        fits == origin # "none" /\ Renders(Catalog(origin)[key], values)
    IN  [origin |-> origin,
         shown |-> IF origin = "none" THEN "key" ELSE IF fits THEN "text" ELSE "template",
         warnings |->
            (IF origin = "none" THEN {Warning("missing_key", key)}
             ELSE IF ~fits THEN {Warning("format_error", key)} ELSE {})
            \cup (IF key \in DOMAIN EnglishTexts \ DOMAIN Catalog(language)
                    THEN {Warning("missing_translation", key)} ELSE {})]
=============================================================================
