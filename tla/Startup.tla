------------------------------ MODULE Startup -------------------------------
(***************************************************************************)
(* From the configuration file to a listening server: parse_config, which   *)
(* every ys_router_init runs again through setup_env, the log level and the *)
(* log file, the server attributes, ys_server_init and ys_server_start.     *)
(*                                                                         *)
(* A line of the file is its key and its value, as text and as the number   *)
(* atoi makes of it.  The key "none" stands for a line without a value: an  *)
(* empty line, a comment, "KEY" alone.                                      *)
(***************************************************************************)
EXTENDS Integers, Sequences, SequencesExt, Pointers

CONSTANTS
  Files,         \* the contents the file may have, sequences of Line
  MaxInits,      \* bound on the routers a program makes
  MaxAttrCalls,  \* bound on the calls that make and change the attributes
  Ports,         \* what programs pass to ys_server_set_port
  TlsFiles,      \* certificate and key files
  Absent,        \* there is no file
  Unreadable     \* there is one that cannot be opened

ASSUME InitsAssumption == MaxInits \in Nat \ {0}
ASSUME PortsAssumption == Ports \subseteq Int
ASSUME FilesAssumption ==
  /\ Files \subseteq Seq([key : STRING, num : Int, text : STRING])
  /\ Absent # Unreadable /\ {Absent, Unreadable} \cap Files = {}

MaybeFile == TlsFiles \cup {NULL}

\* The attributes a program can hold, none of which is the null pointer.
AttrSet == [port : Int, https : BOOLEAN, cert : MaybeFile, key : MaybeFile]
ASSUME NullAssumption == NULL \notin AttrSet

NoText == ""   \* the empty string

Line(key, num, text) == [key |-> key, num |-> num, text |-> text]

VARIABLES
  phase,        \* "program", in parse_config "parse", in setup_env "logging", ...
  file,         \* ys.conf
  linesRead,    \* the lines read so far
  local,        \* the local variables of parse_config
  server_conf,
  level,        \* log_level
  sink,         \* where file descriptor 2 leads
  nrouters,
  serverAttr,   \* the server attributes
  server,       \* what ys_server_init made
  pool,         \* the number of threads in the pool
  attrCalls     \* history: the arguments of the calls on the attributes

confVars == <<linesRead, local, server_conf, level, sink, nrouters>>
startupVars == <<phase, file, confVars, serverAttr, server, pool, attrCalls>>

NoLocal == [port |-> 0, threads |-> 0, level |-> NoText, file |-> NoText]

\* The initialiser of server_conf.
Defaults == [port |-> 5000, threads |-> 4, level |-> "info", file |-> NoText]

StartupInit ==
  /\ phase = "program"
  /\ file \in Files \cup {Absent, Unreadable}
  /\ linesRead = 0 /\ local = NoLocal /\ server_conf = Defaults
  /\ level = "info" /\ sink = "stderr" /\ nrouters = 0
  /\ serverAttr = NULL /\ server = NULL /\ pool = NULL /\ attrCalls = <<>>

-----------------------------------------------------------------------------
(* setup_env, in every ys_router_init of the program *)

is_port_in_range(port) == port >= 1024 /\ port < 65535

MaxShort == 32767

\* The conversion to short, for values of an int that are not negative.
ToShort(n) == LET m == n % 65536 IN IF m <= MaxShort THEN m ELSE m - 65536

\* DIE: the process exits.
Die == phase' = "died"

setup_env ==
  /\ phase = "program" /\ nrouters < MaxInits
  /\ nrouters' = nrouters + 1
  /\ linesRead' = 0 /\ local' = NoLocal
  /\ IF file = Unreadable THEN Die
     ELSE phase' = IF file = Absent THEN "logging" ELSE "parse"
  /\ UNCHANGED <<file, server_conf, level, sink, serverAttr, server, pool, attrCalls>>

Parsing == phase = "parse" /\ linesRead < Len(file)
Read == file[linesRead + 1]

LineOk(l) ==
  \/ l.key = "PORT" /\ is_port_in_range(l.num)
  \/ l.key = "NUM_THREADS" /\ l.num >= 0
  \/ l.key \in {"LOG_LEVEL", "LOG_FILE"} /\ l.text # NoText

Assign(l) ==
  CASE l.key = "PORT"        -> [local EXCEPT !.port = l.num]
    [] l.key = "NUM_THREADS" -> [local EXCEPT !.threads = l.num]
    [] l.key = "LOG_LEVEL"   -> [local EXCEPT !.level = l.text]
    [] l.key = "LOG_FILE"    -> [local EXCEPT !.file = l.text]

ParseLine ==
  /\ Parsing /\ LineOk(Read)
  /\ linesRead' = linesRead + 1
  /\ local' = Assign(Read)
  /\ UNCHANGED <<phase, file, server_conf, level, sink, nrouters, serverAttr, server,
                 pool, attrCalls>>

\* goto cleanup with false: nothing of the file is applied and setup_env dies.
RefuseLine ==
  /\ Parsing /\ ~LineOk(Read)
  /\ Die
  /\ UNCHANGED <<file, confVars, serverAttr, server, pool, attrCalls>>

\* Mutant: the threads are taken without a test.
AppliedZeroThreads ==
  [port    |-> IF local.port # 0 THEN local.port ELSE server_conf.port,
   threads |-> ToShort(local.threads),
   level   |-> IF local.level # NoText THEN local.level ELSE server_conf.level,
   file    |-> IF local.file # NoText THEN local.file ELSE server_conf.file]

\* What was given replaces the configuration; 0 threads count as not given.
Applied ==
  [port    |-> IF local.port # 0 THEN local.port ELSE server_conf.port,
   threads |-> IF local.threads # 0 THEN ToShort(local.threads) ELSE server_conf.threads,
   level   |-> IF local.level # NoText THEN local.level ELSE server_conf.level,
   file    |-> IF local.file # NoText THEN local.file ELSE server_conf.file]

ApplyConf ==
  /\ phase = "parse" /\ linesRead = Len(file)
  /\ server_conf' = Applied
  /\ phase' = "logging"
  /\ UNCHANGED <<file, linesRead, local, level, sink, nrouters, serverAttr, server,
                 pool, attrCalls>>

\* setup_log_level compares the index of the level, 0 to 3, with the values of
\* the YS_LOG constants: no case is ever taken but the default.
LogIndex(text) ==
  CASE text = "info" -> 0 [] text = "debug" -> 1 [] text = "verbose" -> 2
    [] OTHER -> 3

LogLevel(i) == CASE i = 6 -> "info" [] i = 7 -> "debug" [] i = 10 -> "verbose"
                 [] OTHER -> "info"

\* The log file replaces stderr, unless it cannot be opened.
setup_logging ==
  /\ phase = "logging"
  /\ level' = LogLevel(LogIndex(server_conf.level))
  /\ \/ /\ phase' = "program"
        /\ sink' = IF server_conf.file = NoText THEN sink ELSE server_conf.file
     \/ server_conf.file # NoText /\ Die /\ UNCHANGED sink
  /\ UNCHANGED <<file, linesRead, local, server_conf, nrouters, serverAttr, server,
                 pool, attrCalls>>

-----------------------------------------------------------------------------
(* Server attributes *)

NewAttr == [port |-> 0, https |-> FALSE, cert |-> NULL, key |-> NULL]

WithPort(a, port) == IF is_port_in_range(port) THEN [a EXCEPT !.port = port] ELSE a

\* Mutant: one of the two files is enough.
WithEitherFile(a, cert, key) ==
  IF cert # NULL \/ key # NULL THEN [a EXCEPT !.https = TRUE, !.cert = cert, !.key = key]
  ELSE a

WithHttps(a, cert, key) ==
  IF cert # NULL /\ key # NULL
  THEN [a EXCEPT !.https = TRUE, !.cert = cert, !.key = key]
  ELSE a

\* For the history: the arguments of a call, port 0 and no files where it has
\* none.
Call(port, cert, key, off) == [port |-> port, cert |-> cert, key |-> key, off |-> off]

SetAttr(a, call) ==
  /\ phase = "program" /\ nrouters > 0 /\ server = NULL /\ Len(attrCalls) < MaxAttrCalls
  /\ serverAttr' = a
  /\ attrCalls' = Append(attrCalls, call)
  /\ UNCHANGED <<phase, file, confVars, server, pool>>

ys_server_attr_init ==
  serverAttr = NULL /\ SetAttr(NewAttr, Call(0, NULL, NULL, FALSE))

ys_server_attr_init_with(port, cert, key) ==
  /\ serverAttr = NULL
  /\ SetAttr(WithHttps(WithPort(NewAttr, port), cert, key), Call(port, cert, key, FALSE))

ys_server_set_port(port) ==
  serverAttr # NULL /\ SetAttr(WithPort(serverAttr, port), Call(port, NULL, NULL, FALSE))

ys_server_use_https(cert, key) ==
  serverAttr # NULL /\ SetAttr(WithHttps(serverAttr, cert, key), Call(0, cert, key, FALSE))

ys_server_disable_https ==
  serverAttr # NULL /\ SetAttr([serverAttr EXCEPT !.https = FALSE], Call(0, NULL, NULL, TRUE))

-----------------------------------------------------------------------------
(* The server *)

ServerPort == IF serverAttr.port # 0 THEN serverAttr.port ELSE server_conf.port

\* The files are only copied for TLS; create_context may fail.
ys_server_init ==
  /\ phase = "program" /\ serverAttr # NULL /\ server = NULL
  /\ server' = [port |-> ServerPort, tls |-> serverAttr.https,
                files |-> IF serverAttr.https
                          THEN <<serverAttr.cert, serverAttr.key>> ELSE <<>>]
  /\ phase' = phase \/ (serverAttr.https /\ Die)
  /\ UNCHANGED <<file, confVars, serverAttr, pool, attrCalls>>

\* A negative short becomes an unsigned beyond TLC's integers: its largest
\* one stands for all of them.
Unsigned(n) == IF n < 0 THEN 2147483647 ELSE n

\* setup_thread_pool, after the certificates and before bind and listen: each
\* of them may fail.
ys_server_start ==
  /\ phase = "program" /\ server # NULL
  /\ \/ phase' = "listening" /\ pool' = Unsigned(server_conf.threads)
     \/ Die /\ pool' \in {NULL, Unsigned(server_conf.threads)}
  /\ UNCHANGED <<file, confVars, serverAttr, server, attrCalls>>

\* The accept loop runs (ThreadPool), or the process is gone.
StartupEnded == phase \in {"listening", "died"} /\ UNCHANGED startupVars

StartupNext ==
  \/ setup_env \/ ParseLine \/ RefuseLine \/ ApplyConf \/ setup_logging
  \/ ys_server_attr_init
  \/ \E p \in Ports, c, k \in MaybeFile : ys_server_attr_init_with(p, c, k)
  \/ \E p \in Ports : ys_server_set_port(p)
  \/ \E c, k \in MaybeFile : ys_server_use_https(c, k)
  \/ ys_server_disable_https
  \/ ys_server_init \/ ys_server_start \/ StartupEnded

StartupSpec == StartupInit /\ [][StartupNext]_startupVars

-----------------------------------------------------------------------------

Listening == phase = "listening"

\* The lines of a key among the first n.
Keyed(key, n) == {k \in 1..n : file[k].key = key}

Lines(key) == IF file \in {Absent, Unreadable} THEN {} ELSE Keyed(key, Len(file))

Given(key) == Lines(key) # {}
LastLine(key) == file[Max(Lines(key))]

\* A server that listens has the port and the log file of the last line of
\* their key, and as many threads as the last line of theirs says when a short
\* holds the number; the default where there is no such line, or 0 threads.
\* Every line of its file was valid, however often the file was loaded.  The log
\* level and larger numbers of threads are EveryKeyEffective's.
ConfEffective ==
  Listening =>
    /\ file = Absent \/ \A n \in DOMAIN file : LineOk(file[n])
    /\ server_conf.port = IF Given("PORT") THEN LastLine("PORT").num ELSE 5000
    /\ LET n == IF Given("NUM_THREADS") THEN LastLine("NUM_THREADS").num ELSE 0
       IN  n <= MaxShort => pool = IF n # 0 THEN n ELSE 4
    /\ sink = IF Given("LOG_FILE") THEN LastLine("LOG_FILE").text ELSE "stderr"

\* "Configures the number of threads to use in the thread pool" and "The
\* maximum level of log messages that will be displayed"
\* (docs/reference/config.md:21, 23): a server that listens has both as the last
\* line of the key says.  The number goes through a short, and setup_log_level
\* compares the index of the level with the values of other constants.
EveryKeyEffective ==
  Listening =>
    /\ Given("NUM_THREADS") /\ LastLine("NUM_THREADS").num # 0 =>
         pool = LastLine("NUM_THREADS").num
    /\ Given("LOG_LEVEL") => LET text == LastLine("LOG_LEVEL").text
                             IN  text \in {"info", "debug", "verbose"} => level = text

\* The calls so far with a valid port, with both files, and those that decide
\* whether the server speaks TLS.
ValidPort == {n \in DOMAIN attrCalls : is_port_in_range(attrCalls[n].port)}
BothFiles == {n \in DOMAIN attrCalls : attrCalls[n].cert # NULL /\ attrCalls[n].key # NULL}
Deciding  == BothFiles \cup {n \in DOMAIN attrCalls : attrCalls[n].off}

\* "If a valid port number is passed to ys_server_set_port, it will override the
\* config value" (docs/reference/config.md): of the ports a program passes the
\* last valid one counts, whatever comes after it; without one the server gets
\* the port of the file, or 5000.  It speaks TLS exactly when the last call that
\* decides says so, ys_server_use_https with both files or
\* ys_server_disable_https, and then with the files of the last call that named
\* both.
ServerAsCalled ==
  server # NULL =>
    /\ server.port = IF ValidPort # {} THEN attrCalls[Max(ValidPort)].port
                     ELSE IF Given("PORT") THEN LastLine("PORT").num ELSE 5000
    /\ server.tls <=> Deciding # {} /\ ~attrCalls[Max(Deciding)].off
    /\ server.tls => /\ BothFiles # {}
                     /\ server.files = LET n == Max(BothFiles)
                                       IN  <<attrCalls[n].cert, attrCalls[n].key>>
=============================================================================
