------------------------------ MODULE MCSession ------------------------------
(***************************************************************************)
(* Session on a small instance, and a claim of the interface's texts that  *)
(* an edit racing with the end of a connection test breaks.                *)
(***************************************************************************)
EXTENDS Session

\* "Test the current connection before starting a transfer", "Connection details
\* changed. Test the connection again": a transfer is started only with the
\* details that are on the screen.
CurrentConnectionOnly ==
    [][~transferActive /\ transferActive' => job'.connection = fields]_vars
=============================================================================
