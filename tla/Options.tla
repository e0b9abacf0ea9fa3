------------------------------- MODULE Options -------------------------------
(***************************************************************************)
(* From the command line to the parameters of the threads: parse_arg,      *)
(* parse_cmdline, parse_config and the credentials of main().  What a      *)
(* string says to the C library is given by the constants.                 *)
(***************************************************************************)
EXTENDS Integers, Sequences, SequencesExt, FiniteSets

CONSTANTS
    atoi,           \* atoi[s]: the number a string begins with
    algo_names,     \* the strings that name a scanner compiled in
    HttpUrls,       \* the strings that begin with http:// or https://
    UserPasses,     \* the strings with a colon
    File,           \* File[s]: the JSON value in the file s, NULL if there is
                    \* none: [kind, member], a member a value [kind, text]
    num_processors, \* at least 1
    NULL

\* The table of options, in its order.
WithArgument == {"algo", "config", "pass", "threads", "retries", "retry-pause", "scantime",
                 "url", "user", "userpass"}
options == <<"algo", "config", "debug", "help", "no-longpoll", "pass", "protocol-dump", "quiet",
             "threads", "retries", "retry-pause", "scantime", "syslog", "url", "user", "userpass">>

Switches == {"debug", "no-longpoll", "protocol-dump", "quiet", "syslog"}
Limits == [o \in {"threads", "retries", "retry-pause", "scantime"} |->
              IF o = "retries" THEN -1 .. 9999 ELSE 1 .. 9999]

\* The variables of the program before it reads its arguments; a switch is
\* whether it was given, and 0 threads stands for none given.
Defaults ==
    [o \in WithArgument \cup Switches |->
        CASE o \in Switches -> FALSE
          [] o = "threads" -> 0 [] o = "retries" -> 10 [] o = "retry-pause" -> 30 [] o = "scantime" -> 5
          [] o \in {"algo", "url"} -> "default"
          [] o \in {"user", "pass", "userpass", "config"} -> NULL]

Usage == [exit |-> TRUE, opt |-> Defaults]

\* Every call of parse_arg that returns ends with the number of threads.
Chosen(s, key, v) ==
    LET opt == [s.opt EXCEPT ![key] = v]
    IN  [exit |-> FALSE, opt |-> [opt EXCEPT !.threads = IF @ = 0 THEN num_processors ELSE @]]

IsObjectFile(arg) == File[arg] # NULL /\ File[arg].kind = "object"

\* Is an option's argument one that parse_arg takes?
Takes(key, arg) ==
    CASE key \in DOMAIN Limits -> atoi[arg] \in Limits[key]
      [] key = "algo" -> arg \in algo_names
      [] key = "url" -> arg \in HttpUrls
      [] key = "userpass" -> arg \in UserPasses
      [] key = "config" -> IsObjectFile(arg)
      [] OTHER -> key \in {"user", "pass"} \cup Switches

\* Mutant: the number of threads is left to the threads option.
parse_arg_NoThreads(s, key, arg) ==
    IF s.exit \/ ~Takes(key, arg) THEN Usage
    ELSE [exit |-> FALSE,
          opt |-> [s.opt EXCEPT ![key] = IF key \in DOMAIN Limits THEN atoi[arg]
                                         ELSE IF key \in Switches THEN TRUE
                                         ELSE IF key = "config" THEN File[arg] ELSE arg]]

\* show_usage ends the program.
parse_arg(s, key, arg) ==
    IF s.exit \/ ~Takes(key, arg) THEN Usage
    ELSE IF key \in DOMAIN Limits THEN Chosen(s, key, atoi[arg])
    ELSE IF key \in Switches THEN Chosen(s, key, TRUE)
    ELSE IF key = "config" THEN Chosen(s, key, File[arg])
    ELSE Chosen(s, key, arg)

\* An entry of the wrong kind is reported and passed over.
ParseEntry(s, key, val) ==
    IF key \in WithArgument /\ val.kind = "string" THEN parse_arg(s, key, val.text)
    ELSE IF key \notin WithArgument /\ val.kind = "true" THEN parse_arg(s, key, "")
    ELSE s

parse_config(s) ==
    IF s.exit \/ s.opt.config = NULL THEN s
    ELSE LET member == s.opt.config.member
             Entry(t, key) == IF t.exit \/ key = "config" \/ key \notin DOMAIN member THEN t
                              ELSE ParseEntry(t, key, member[key])
             parsed[n \in 0 .. Len(options)] == IF n = 0 THEN s ELSE Entry(parsed[n - 1], options[n])
         IN  parsed[Len(options)]

\* args: the options of the command line and their arguments, as getopt_long
\* finds them; it calls an option it does not know "?".
parse_cmdline(args) ==
    LET parsed[n \in 0 .. Len(args)] ==
            IF n = 0 THEN [exit |-> FALSE, opt |-> Defaults]
            ELSE parse_arg(parsed[n - 1], args[n][1], args[n][2])
    IN  parse_config(parsed[Len(args)])

\* The user and password the server is asked with, NULL if the program ends.
Credentials(s) ==
    IF s.exit THEN NULL
    ELSE IF s.opt.userpass # NULL THEN <<s.opt.userpass>>
    ELSE IF s.opt.user = NULL \/ s.opt.pass = NULL THEN NULL
    ELSE <<s.opt.user, s.opt.pass>>
=============================================================================
