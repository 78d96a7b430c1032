----------------------------- MODULE MCSettings -----------------------------
(***************************************************************************)
(* SettingsStore with two applications and a few small catalogs, and a     *)
(* claim of the language texts that a partial catalog breaks.              *)
(***************************************************************************)
EXTENDS SettingsStore, TLC

Named(code, valid, strings) ==
    [file |-> code, code |-> code, valid |-> valid, strings |-> strings]

WarningTexts == "invalid_catalog" :> {"filename", "detail"}
             @@ "language_not_found" :> {"language"}
             @@ "placeholder_mismatch" :> {"translation"}
             @@ "missing_translation" :> {"language", "translation"}
             @@ "settings_invalid" :> {}

EnglishCatalog == "title" :> {} @@ "progress" :> {"percent"} @@ WarningTexts

\* "progress" has another placeholder, "title" is missing.
FrenchCatalog == "progress" :> {"pourcent"} @@ WarningTexts

\* "pt.br" is no code the settings accept; the file of "xx" is refused, and so
\* is that of "yy", for its braces.
AllCatalogs == {Named("en", TRUE, EnglishCatalog), Named("fr", TRUE, FrenchCatalog),
                Named("pt.br", TRUE, EnglishCatalog), Named("xx", FALSE, EnglishCatalog),
                Named("yy", TRUE, "title" :> Unmatched)}

\* A catalog that translates nothing but the title.
PartialCatalogs == {Named("en", TRUE, EnglishCatalog), Named("fr", TRUE, "title" :> {})}

\* "warnings.missing_translation": "Language '{language}' is missing
\* '{translation}'; using English."  The Settings page lists the warnings.
WarningsAreListed == \A a \in Apps : page[a] # "broken"
=============================================================================
