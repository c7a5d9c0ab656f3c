---------------------------- MODULE CommandLine ----------------------------
(***************************************************************************)
(* What src/bin/rsurl.rs does with cookies: an invocation builds its jar    *)
(* from -b and -c, every URL of its command line is a call of send_to with  *)
(* that jar, and at the end the jar is saved; the next invocation reads the *)
(* file.  (No --max-time is given.)                                        *)
(***************************************************************************)
EXTENDS Redirect

CONSTANTS
    Files,          \* contents of cookies.txt at first
    Options,        \* [b : {"none", "pairs", "file"}, c : BOOLEAN]; one file serves both
    MaxUrls,        \* bound: URLs on a command line
    MaxInvocations  \* bound: invocations

ASSUME CommandLineAssumption ==
    /\ Options \subseteq [b : {"none", "pairs", "file"}, c : BOOLEAN] \ {[b |-> "none", c |-> FALSE]}
    /\ MaxUrls \in Nat \ {0} /\ MaxInvocations \in Nat \ {0}

\* Whoever wrote cookies.txt first, its lines are numbered from 1 and of the domains that they name.
ASSUME FilesAssumption ==
    \A lines \in Files : \A c \in lines :
        c.by = c.domain /\ c.domain \in Hosts /\ c.hostOnly \in BOOLEAN /\ c.line \in Nat \ {0}

VARIABLES
    file,         \* cookies.txt: its lines, and is the last one cut short?
    options,      \* of this invocation
    urls,         \* URLs still to process
    invocations   \* so far

shell == <<file, options, urls, invocations>>

InitShell ==
    /\ \E lines \in Files : file = [lines |-> lines, torn |-> FALSE]
    /\ invocations = 0 /\ clock = 0
    /\ state = "exited" /\ options = Nothing /\ urls = 0
    /\ first = Nothing /\ url = Nothing /\ method = "GET" /\ body = FALSE /\ auth = FALSE /\ cookie = FALSE
    /\ useJar = TRUE /\ jar = {} /\ follow = FALSE
    /\ hopsLeft = 0 /\ sends = 0 /\ sent = Nothing

\* -b with a file, or -c alone.
Reads(o) == o.b # "pairs"

\* main, build_initial_jar: a malformed line of the file ends the invocation.
Main ==
    /\ state = "exited" /\ invocations < MaxInvocations
    /\ \E o \in Options, n \in 1 .. MaxUrls, later \in {clock, clock + 1} :
        /\ later <= MaxClock /\ clock' = later
        /\ IF Reads(o) /\ file.torn
           THEN UNCHANGED <<options, urls, jar, state>>
           ELSE /\ options' = o /\ urls' = n /\ state' = "next"
                /\ jar' = IF Reads(o) THEN LoadedCookies(file.lines) ELSE {}
    /\ invocations' = invocations + 1
    /\ UNCHANGED <<file, first, request, useJar, follow, hopsLeft, sends, sent>>

\* The last call has returned, whatever it returned.
Returned == state \notin {"hop", "wait", "exited"}

\* process_url: the pairs of -b go to the jar for this URL's host, and send_with_jar begins.
ProcessUrl ==
    /\ Returned /\ urls > 0
    /\ urls' = urls - 1
    /\ \E o \in Origins, p \in Paths, c \in Callers, names \in SUBSET Names \ {{}} :
        /\ url' = [origin |-> o, userinfo |-> c.userinfo, path |-> p]
        /\ method' = c.method /\ body' = c.body /\ auth' = c.auth /\ cookie' = c.cookie
        /\ useJar' = c.useJar /\ follow' = c.follow
        /\ first' = [origin |-> o, method |-> c.method]
        /\ jar' = IF options.b = "pairs"
                  THEN AddExplicit(jar, o.host, names) ELSE jar
    /\ hopsLeft' = MaxRedirs /\ sends' = 0 /\ sent' = Nothing /\ state' = "hop"
    /\ UNCHANGED <<file, options, invocations, clock>>

Chain == (Hop \/ SendFails \/ Reply) /\ UNCHANGED shell

\* The final save; it truncates the file first, and may fail at any line.
Exit ==
    /\ Returned /\ urls = 0
    /\ state' = "exited" /\ options' = Nothing /\ urls' = 0
    /\ first' = Nothing /\ url' = Nothing /\ method' = "GET" /\ body' = FALSE /\ auth' = FALSE /\ cookie' = FALSE
    /\ useJar' = TRUE /\ jar' = {} /\ follow' = FALSE
    /\ hopsLeft' = 0 /\ sends' = 0 /\ sent' = Nothing
    /\ \/ options.c /\ file' = [lines |-> SavedCookies(jar), torn |-> FALSE]
       \/ options.c /\ \E some \in SUBSET SavedCookies(jar), torn \in BOOLEAN :
                file' = [lines |-> some, torn |-> torn]
       \/ ~options.c /\ UNCHANGED file
    /\ UNCHANGED <<invocations, clock>>

Done == state = "exited" /\ invocations = MaxInvocations /\ UNCHANGED <<vars, shell>>

NextShell == Main \/ ProcessUrl \/ Chain \/ Exit \/ Done

SpecShell == InitShell /\ [][NextShell]_<<vars, shell>>
=============================================================================
