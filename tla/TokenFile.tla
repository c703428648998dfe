------------------------------ MODULE TokenFile ------------------------------
(***************************************************************************)
(* auth::resolve: the bearer token of a start of the server, from the      *)
(* captured environment or from ~/.tmuxlet/token, which is reused, secured *)
(* or generated.  A start may be cut off between any two steps; the file   *)
(* stays.  The user edits it as she likes; clients read it.                *)
(***************************************************************************)
EXTENDS Naturals

CONSTANTS
  NoToken,   \* auth is off, or no token has been resolved
  Blank,     \* the content of an empty file, or of white space
  UserToken, \* a token the user wrote into the file
  EnvToken,  \* the value of the variable auth_token_env names
  NoFile     \* the file does not exist

VARIABLES
  file,     \* ~/.tmuxlet/token: NoFile, or what its inode is like
  ours,     \* the file is the one this start has created and not finished
  resolver, \* where auth::resolve is
  token,    \* State.auth_token
  issued,   \* tokens generated so far: they are numbered
  shown,    \* history: the token that clients have read in the file
  edited    \* history: the content is not what this start has read or written

tokenVars == <<file, ours, resolver, token, issued, shown, edited>>

Generated == Nat \ {0}
RealToken == Generated \cup {UserToken, EnvToken}

\* open: group or others may read it now; exposed: they once could, and may have
\* kept it open.
File == [content : Generated \cup {Blank, UserToken}, open : BOOLEAN, exposed : BOOLEAN]

TypeOK ==
  /\ file \in File \cup {NoFile}
  /\ ours \in BOOLEAN
  /\ resolver \in {"idle", "repairing", "generating", "removing", "creating",
                   "writing", "done", "failed"}
  /\ token \in RealToken \cup {Blank, NoToken}
  /\ issued \in Nat
  /\ shown \in Generated \cup {UserToken, NoToken}
  /\ edited \in BOOLEAN

\* A server process that has just started: the disk and the clients stay.
Fresh ==
  /\ resolver' = "idle"
  /\ token' = NoToken
  /\ ours' = FALSE
  /\ UNCHANGED <<file, issued, shown, edited>>

Init ==
  /\ file = NoFile /\ shown = NoToken /\ issued = 0
  /\ ours = FALSE /\ resolver = "idle" /\ token = NoToken /\ edited = FALSE
-----------------------------------------------------------------------------
(* auth::resolve. *)

AuthOff(auth) ==
  /\ resolver = "idle"
  /\ auth = "off"
  /\ resolver' = "done"
  /\ UNCHANGED <<file, ours, token, issued, shown, edited>>

\* The variable wins over the file; it is set only if the user exported it, and
\* never in an empty environment.
FromEnv(auth, env) ==
  /\ resolver = "idle"
  /\ auth = "env"
  /\ \/ env # "empty" /\ token' = EnvToken /\ resolver' = "done"
     \/ resolver' = "failed" /\ UNCHANGED token
  /\ UNCHANGED <<file, ours, issued, shown, edited>>

\* Variant: any file that can be read holds a token.
UsableAny == file # NoFile

\* Variant: a file that others can read is replaced.
UsableIfPrivate == file # NoFile /\ file.content # Blank /\ ~file.open

\* Not absent, and not white space.
Usable == file # NoFile /\ file.content # Blank

\* Restarts do not invalidate clients.
ReadToken(auth) ==
  /\ resolver = "idle"
  /\ auth = "file"
  /\ IF Usable
     THEN token' = file.content /\ resolver' = "repairing"
     ELSE resolver' = "generating" /\ UNCHANGED token
  /\ edited' = FALSE
  /\ UNCHANGED <<file, ours, issued, shown>>

\* A file that cannot be read is taken for none.
ReadFails(auth) ==
  /\ resolver = "idle"
  /\ auth = "file"
  /\ file # NoFile
  /\ resolver' = "generating"
  /\ edited' = TRUE
  /\ UNCHANGED <<file, ours, token, issued, shown>>

\* Clients of a content that this start has never read are told to read again.
ReadAgain == shown' = IF edited THEN NoToken ELSE shown

\* repair_token_perms; it may fail, and the token is used all the same.
Repair ==
  /\ resolver = "repairing"
  /\ resolver' = "done"
  /\ \/ UNCHANGED file
     \/ /\ file # NoFile /\ file.open
        /\ file' = [file EXCEPT !.open = FALSE]
  /\ UNCHANGED <<ours, token, issued, shown, edited>>

\* random_hex_32.
Generate ==
  /\ resolver = "generating"
  /\ \/ /\ issued' = issued + 1
        /\ token' = issued'
        /\ resolver' = "removing"
     \/ /\ resolver' = "failed"
        /\ UNCHANGED <<token, issued>>
  /\ UNCHANGED <<file, ours, shown, edited>>

\* Variant: an existing file is not removed but truncated and written in place.
RemoveTruncates ==
  /\ resolver = "removing"
  /\ IF file = NoFile
     THEN file' = NoFile /\ resolver' = "creating" /\ UNCHANGED ours
     ELSE file' = [file EXCEPT !.content = Blank] /\ resolver' = "writing" /\ ours' = TRUE
  /\ UNCHANGED <<token, issued, shown, edited>>

\* write_token: remove_file, whose failure is ignored,
Remove ==
  /\ resolver = "removing"
  /\ file' \in {NoFile, file}
  /\ resolver' = "creating"
  /\ ReadAgain
  /\ UNCHANGED <<ours, token, issued, edited>>

\* create_new with mode 0600, which fails on a file that exists,
Create ==
  /\ resolver = "creating"
  /\ \/ /\ file = NoFile
        /\ file' = [content |-> Blank, open |-> FALSE, exposed |-> FALSE]
        /\ ours' = TRUE
        /\ resolver' = "writing"
     \/ /\ resolver' = "failed"
        /\ UNCHANGED <<file, ours>>
  /\ UNCHANGED <<token, issued, shown, edited>>

\* and write_all, into the inode created, whether or not it still has its name.
Write ==
  /\ resolver = "writing"
  /\ \/ /\ file' = IF ours THEN [file EXCEPT !.content = token] ELSE file
        /\ edited' = (edited /\ ~ours)
        /\ resolver' = "done"
     \/ /\ resolver' = "failed"
        /\ UNCHANGED <<file, edited>>
  /\ ours' = FALSE
  /\ ReadAgain
  /\ UNCHANGED <<token, issued>>

Resolve(auth, env) ==
  \/ AuthOff(auth) \/ FromEnv(auth, env) \/ ReadToken(auth) \/ ReadFails(auth)
  \/ Repair \/ Generate \/ Remove \/ Create \/ Write
-----------------------------------------------------------------------------
(* The user and the clients (not this code). *)

\* `echo tok > file` and `: > file`: in place if it exists, else as umask says.
UserWrites ==
  /\ \E content \in {UserToken, Blank}, open \in BOOLEAN :
       file' = IF file = NoFile
               THEN [content |-> content, open |-> open, exposed |-> open]
               ELSE [file EXCEPT !.content = content]
  /\ shown' = NoToken
  /\ edited' = TRUE
  /\ UNCHANGED <<ours, resolver, token, issued>>

UserDeletes ==
  /\ file # NoFile
  /\ file' = NoFile
  /\ ours' = FALSE
  /\ shown' = NoToken
  /\ edited' = TRUE
  /\ UNCHANGED <<resolver, token, issued>>

\* chmod, of any file but the one in the making.
UserOpens ==
  /\ file # NoFile /\ ~ours
  /\ file' = [file EXCEPT !.open = TRUE, !.exposed = TRUE]
  /\ UNCHANGED <<ours, resolver, token, issued, shown, edited>>

ClientReadsFile ==
  /\ file # NoFile /\ file.content # Blank
  /\ shown' = file.content
  /\ UNCHANGED <<file, ours, resolver, token, issued, edited>>

User == UserWrites \/ UserDeletes \/ UserOpens
=============================================================================
