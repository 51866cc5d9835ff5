--------------------------- MODULE StartupProofs ----------------------------
(***************************************************************************)
(* Proofs about Startup, for every content of ys.conf and every sequence of *)
(* calls that make and change the attributes of a server.                   *)
(***************************************************************************)
EXTENDS Startup, ProofLemmas

LineSet == [key : STRING, num : Int, text : STRING]
Texts == STRING \cup {NoText, "info"}   \* the provers do not take literals for strings
ConfSet == [port : Int, threads : Int, level : Texts, file : Texts]
CallSet == [port : Int, cert : MaybeFile, key : MaybeFile, off : BOOLEAN]

Pcs == {"program", "parse", "logging", "listening", "died"}

\* The typing the other parts need.
TypeInv ==
  /\ phase \in Pcs
  /\ file \in Files \cup {Absent, Unreadable}
  /\ linesRead \in Nat /\ nrouters \in Nat
  /\ local \in ConfSet /\ server_conf \in ConfSet
  /\ serverAttr # NULL => serverAttr \in AttrSet
  /\ attrCalls \in Seq(CallSet)

\* What the first n lines of the file say.
PortIn(n) == IF Keyed("PORT", n) # {} THEN file[Max(Keyed("PORT", n))].num ELSE 0
ThreadsIn(n) ==
  IF Keyed("NUM_THREADS", n) # {} THEN file[Max(Keyed("NUM_THREADS", n))].num ELSE 0
LogFileIn(n) ==
  IF Keyed("LOG_FILE", n) # {} THEN file[Max(Keyed("LOG_FILE", n))].text ELSE NoText

\* In the loop of parse_config the locals hold what the lines read so far say.
ParseInv ==
  phase = "parse" =>
    /\ file \in Files /\ linesRead <= Len(file)
    /\ \A k \in 1..linesRead : LineOk(file[k])
    /\ local.port = PortIn(linesRead)
    /\ local.threads = ThreadsIn(linesRead)
    /\ local.file = LogFileIn(linesRead)

\* What the whole file says, or the default.
PortOf == IF Given("PORT") THEN LastLine("PORT").num ELSE 5000
ThreadsGiven == IF Given("NUM_THREADS") THEN LastLine("NUM_THREADS").num ELSE 0
ThreadsOf == IF ThreadsGiven # 0 THEN ToShort(ThreadsGiven) ELSE 4
LogFileOf == IF Given("LOG_FILE") THEN LastLine("LOG_FILE").text ELSE NoText
SinkOf == IF Given("LOG_FILE") THEN LastLine("LOG_FILE").text ELSE "stderr"

Loaded == phase = "logging" \/ (phase \in {"program", "listening"} /\ nrouters > 0)

\* The configuration is the default or that of the file, and that of the file
\* as soon as one router is made, however often it is loaded again.
ConfInv ==
  /\ server_conf.port \in {5000, PortOf} /\ server_conf.threads \in {4, ThreadsOf}
  /\ server_conf.file \in {NoText, LogFileOf} /\ sink \in {"stderr", SinkOf}
  /\ phase \in {"parse", "logging"} => nrouters > 0
  /\ Loaded => /\ file \in Files \cup {Absent}
               /\ file = Absent \/ \A n \in DOMAIN file : LineOk(file[n])
               /\ server_conf.port = PortOf /\ server_conf.threads = ThreadsOf
               /\ server_conf.file = LogFileOf
               /\ phase # "logging" => sink = SinkOf

\* The attributes are what the calls so far made of them.
AttrInv ==
  /\ serverAttr = NULL => attrCalls = <<>>
  /\ serverAttr # NULL =>
       /\ nrouters > 0
       /\ serverAttr.port = IF ValidPort # {} THEN attrCalls[Max(ValidPort)].port ELSE 0
       /\ serverAttr.https <=> Deciding # {} /\ ~attrCalls[Max(Deciding)].off
       /\ BothFiles # {} => /\ serverAttr.cert = attrCalls[Max(BothFiles)].cert
                            /\ serverAttr.key = attrCalls[Max(BothFiles)].key

\* The server is what they were when it was made.
ServerInv ==
  /\ server # NULL =>
       /\ serverAttr # NULL
       /\ server.port = IF serverAttr.port # 0 THEN serverAttr.port ELSE PortOf
       /\ server.tls = serverAttr.https
       /\ serverAttr.https => server.files = <<serverAttr.cert, serverAttr.key>>
  /\ phase = "listening" => nrouters > 0 /\ pool = Unsigned(server_conf.threads)

IInv == TypeInv /\ ParseInv /\ ConfInv /\ AttrInv /\ ServerInv

-----------------------------------------------------------------------------
(* The file. *)

\* No action changes the file, and with it what the file says.
LEMMA SameFile ==
  ASSUME file' = file
  PROVE  /\ PortOf' = PortOf /\ ThreadsOf' = ThreadsOf
         /\ LogFileOf' = LogFileOf /\ SinkOf' = SinkOf
BY DEF PortOf, ThreadsOf, ThreadsGiven, LogFileOf, SinkOf, Given, LastLine,
       Lines, Keyed

LEMMA FileTyped ==
  ASSUME file \in Files
  PROVE  /\ file \in Seq(LineSet) /\ Len(file) \in Nat
         /\ DOMAIN file = 1..Len(file) /\ file \notin {Absent, Unreadable}
         /\ \A k \in 1..Len(file) : file[k] \in LineSet
<1>1. file \in Seq(LineSet) /\ file \notin {Absent, Unreadable}
  BY FilesAssumption, Zenon DEF LineSet
<1>2. QED
  BY <1>1

\* One line more: it is the last of its key, and no other key has a new one.
LEMMA KeyedNext ==
  ASSUME file \in Files, NEW key, NEW n \in 0 .. Len(file) - 1
  PROVE  /\ file[n + 1].key = key =>
              Keyed(key, n + 1) # {} /\ Max(Keyed(key, n + 1)) = n + 1
         /\ file[n + 1].key # key => Keyed(key, n + 1) = Keyed(key, n)
<1>1. n \in Nat /\ Len(file) \in Nat
  BY FileTyped
<1>2. CASE file[n + 1].key = key
  <2>1. Keyed(key, n + 1) = Keyed(key, n) \cup {n + 1}
    BY <1>1, <1>2 DEF Keyed
  <2>2. Keyed(key, n) \subseteq Int /\ \A x \in Keyed(key, n) : x < n + 1
    BY <1>1 DEF Keyed
  <2>3. Max(Keyed(key, n) \cup {n + 1}) = n + 1
    <3>1. n + 1 \in Int
      BY <1>1
    <3>2. QED
      BY <2>2, <3>1, MaxAdded, Zenon
  <2>4. QED
    BY <1>2, <2>1, <2>3, Zenon
<1>3. CASE file[n + 1].key # key
  BY <1>1, <1>3 DEF Keyed
<1>4. QED
  BY <1>2, <1>3

\* The line that decides a key, when there is one, has that key.
LEMMA LastKeyed ==
  ASSUME file \in Files, NEW key, NEW n \in 0..Len(file), Keyed(key, n) # {}
  PROVE  /\ Max(Keyed(key, n)) \in 1..n
         /\ file[Max(Keyed(key, n))].key = key
<1>1. n \in Nat /\ Keyed(key, n) \subseteq 0..n
  BY FileTyped DEF Keyed
<1>2. Max(Keyed(key, n)) \in Keyed(key, n)
  BY <1>1, MaxBounded
<1>3. QED
  BY <1>2 DEF Keyed

LEMMA InitIInv == StartupInit => IInv
<1> SUFFICES ASSUME StartupInit PROVE IInv
  OBVIOUS
<1>1. TypeInv
  <2>1. NoLocal \in ConfSet /\ Defaults \in ConfSet
    BY DEF NoLocal, Defaults, ConfSet, Texts
  <2>2. QED
    BY <2>1 DEF StartupInit, TypeInv, Pcs
<1>2. ParseInv /\ ServerInv /\ AttrInv
  BY DEF StartupInit, ParseInv, ServerInv, AttrInv
<1>3. ConfInv
  <2>1. server_conf.port = 5000 /\ server_conf.threads = 4 /\ server_conf.file = NoText
    BY DEF StartupInit, Defaults
  <2>2. ~Loaded /\ phase # "logging"
    BY DEF StartupInit, Loaded
  <2>3. QED
    BY <2>1, <2>2 DEF StartupInit, ConfInv
<1>4. QED
  BY <1>1, <1>2, <1>3 DEF IInv

\* ys_router_init begins to load the file.
LEMMA StepRouterInit ==
  ASSUME IInv, setup_env
  PROVE  IInv'
<1> USE DEF IInv
<1>0. /\ phase = "program" /\ nrouters' = nrouters + 1 /\ linesRead' = 0
      /\ local' = NoLocal
      /\ UNCHANGED <<file, server_conf, level, sink, serverAttr, server, pool, attrCalls>>
      /\ \/ file = Unreadable /\ phase' = "died"
         \/ file = Absent /\ phase' = "logging"
         \/ file \notin {Absent, Unreadable} /\ phase' = "parse"
  BY DEF setup_env, Die
<1>1. TypeInv'
  <2>1. NoLocal \in ConfSet
    BY DEF NoLocal, ConfSet, Texts
  <2>2. QED
    BY <1>0, <2>1 DEF TypeInv, Pcs
<1>2. ParseInv'
  <2> SUFFICES ASSUME phase' = "parse" PROVE ParseInv'
    BY DEF ParseInv
  <2>1. file \in Files
    BY <1>0 DEF TypeInv
  <2>2. Len(file) \in Nat
    BY <2>1, FileTyped
  <2>3. \A key : Keyed(key, 0) = {}
    BY DEF Keyed
  <2>4. PortIn(0) = 0 /\ ThreadsIn(0) = 0 /\ LogFileIn(0) = NoText
    BY <2>3 DEF PortIn, ThreadsIn, LogFileIn
  <2>5. PortIn(0)' = PortIn(0) /\ ThreadsIn(0)' = ThreadsIn(0)
        /\ LogFileIn(0)' = LogFileIn(0)
    BY <1>0 DEF PortIn, ThreadsIn, LogFileIn, Keyed
  <2>6. PortIn(linesRead)' = 0 /\ ThreadsIn(linesRead)' = 0 /\ LogFileIn(linesRead)' = NoText
    BY <1>0, <2>4 DEF PortIn, ThreadsIn, LogFileIn, Keyed
  <2>7. QED
    BY <1>0, <2>1, <2>2, <2>6 DEF ParseInv, NoLocal
<1>3. ConfInv'
  <2>1. CASE file = Absent
    <3>1. \A key : ~Given(key)
      BY <2>1 DEF Given, Lines
    <3>2. PortOf = 5000 /\ ThreadsOf = 4 /\ LogFileOf = NoText /\ SinkOf = "stderr"
      BY <3>1 DEF PortOf, ThreadsOf, ThreadsGiven, LogFileOf, SinkOf
    <3>3. QED
      BY <1>0, <2>1, <3>2, SameFile, FilesAssumption DEF ConfInv, Loaded, TypeInv
  <2>2. CASE file # Absent
    BY <1>0, <2>2, SameFile DEF ConfInv, Loaded, TypeInv
  <2>3. QED
    BY <2>1, <2>2
<1>4. AttrInv'
  BY <1>0 DEF AttrInv, TypeInv, ValidPort, Deciding, BothFiles
<1>5. ServerInv'
  BY <1>0, SameFile DEF ServerInv
<1>6. QED
  BY <1>1, <1>2, <1>3, <1>4, <1>5

\* The settings that the locals stand for, one line further.
LEMMA SettingsNext ==
  ASSUME file \in Files, NEW n \in 0 .. Len(file) - 1
  PROVE  /\ PortIn(n + 1) = IF file[n + 1].key = "PORT"
                            THEN file[n + 1].num ELSE PortIn(n)
         /\ ThreadsIn(n + 1) = IF file[n + 1].key = "NUM_THREADS"
                               THEN file[n + 1].num ELSE ThreadsIn(n)
         /\ LogFileIn(n + 1) = IF file[n + 1].key = "LOG_FILE"
                               THEN file[n + 1].text ELSE LogFileIn(n)
<1>1. /\ file[n + 1].key = "PORT" =>
           Keyed("PORT", n + 1) # {} /\ Max(Keyed("PORT", n + 1)) = n + 1
      /\ file[n + 1].key # "PORT" => Keyed("PORT", n + 1) = Keyed("PORT", n)
  BY KeyedNext
<1>2. /\ file[n + 1].key = "NUM_THREADS" =>
           /\ Keyed("NUM_THREADS", n + 1) # {}
           /\ Max(Keyed("NUM_THREADS", n + 1)) = n + 1
      /\ file[n + 1].key # "NUM_THREADS" =>
           Keyed("NUM_THREADS", n + 1) = Keyed("NUM_THREADS", n)
  BY KeyedNext
<1>3. /\ file[n + 1].key = "LOG_FILE" =>
           Keyed("LOG_FILE", n + 1) # {} /\ Max(Keyed("LOG_FILE", n + 1)) = n + 1
      /\ file[n + 1].key # "LOG_FILE" =>
           Keyed("LOG_FILE", n + 1) = Keyed("LOG_FILE", n)
  BY KeyedNext
<1>4. QED
  BY <1>1, <1>2, <1>3 DEF PortIn, ThreadsIn, LogFileIn

\* A valid line goes into the local variable of its key.
LEMMA StepParseLine ==
  ASSUME IInv, ParseLine
  PROVE  IInv'
<1> USE DEF IInv
<1>0. /\ phase = "parse" /\ linesRead < Len(file) /\ LineOk(file[linesRead + 1])
      /\ linesRead' = linesRead + 1 /\ local' = Assign(file[linesRead + 1])
      /\ UNCHANGED <<phase, file, server_conf, level, sink, nrouters, serverAttr, server, pool, attrCalls>>
  BY DEF ParseLine, Parsing, Read
<1>1. /\ file \in Files /\ linesRead \in Nat /\ Len(file) \in Nat
      /\ linesRead \in 0 .. Len(file) - 1 /\ file[linesRead + 1] \in LineSet
  BY <1>0, FileTyped DEF ParseInv, TypeInv
<1>2. /\ local' \in ConfSet
      /\ local'.port = IF file[linesRead + 1].key = "PORT"
                       THEN file[linesRead + 1].num ELSE local.port
      /\ local'.threads = IF file[linesRead + 1].key = "NUM_THREADS"
                          THEN file[linesRead + 1].num ELSE local.threads
      /\ local'.file = IF file[linesRead + 1].key = "LOG_FILE"
                       THEN file[linesRead + 1].text ELSE local.file
  BY <1>0, <1>1 DEF Assign, LineOk, TypeInv, ConfSet, LineSet, Texts
<1>3. TypeInv'
  BY <1>0, <1>1, <1>2 DEF TypeInv
<1>4. ParseInv'
  <2>1. /\ PortIn(linesRead)' = PortIn(linesRead + 1) /\ ThreadsIn(linesRead)' = ThreadsIn(linesRead + 1)
        /\ LogFileIn(linesRead)' = LogFileIn(linesRead + 1)
    BY <1>0 DEF PortIn, ThreadsIn, LogFileIn, Keyed
  <2>2. /\ local'.port = PortIn(linesRead)' /\ local'.threads = ThreadsIn(linesRead)'
        /\ local'.file = LogFileIn(linesRead)'
    BY <1>0, <1>1, <1>2, <2>1, SettingsNext DEF ParseInv
  <2>3. \A k \in 1 .. linesRead + 1 : LineOk(file[k])
    BY <1>0, <1>1 DEF ParseInv
  <2>4. QED
    BY <1>0, <1>1, <2>2, <2>3 DEF ParseInv, LineOk
<1>5. ConfInv'
  BY <1>0, SameFile DEF ConfInv, Loaded
<1>6. AttrInv'
  BY <1>0 DEF AttrInv, ValidPort, Deciding, BothFiles
<1>7. ServerInv'
  BY <1>0, SameFile DEF ServerInv
<1>8. QED
  BY <1>3, <1>4, <1>5, <1>6, <1>7

\* A process that dies has nothing to keep but its typing.
LEMMA StepDie ==
  ASSUME IInv, phase' = "died",
         UNCHANGED <<file, confVars, serverAttr, attrCalls>>, server' = server
  PROVE  IInv'
<1> USE DEF IInv, confVars
<1>1. TypeInv' /\ ParseInv'
  BY DEF TypeInv, ParseInv, Pcs
<1>2. ConfInv'
  BY SameFile DEF ConfInv, Loaded
<1>3. AttrInv' /\ ServerInv'
  BY SameFile DEF AttrInv, ServerInv, ValidPort, Deciding, BothFiles
<1>4. QED
  BY <1>1, <1>2, <1>3

\* What a valid file says, in terms of its last lines.
LEMMA WholeFile ==
  ASSUME file \in Files, \A k \in 1..Len(file) : LineOk(file[k])
  PROVE  /\ Given("PORT") => PortIn(Len(file)) = PortOf /\ PortOf # 0 /\ PortOf \in Int
         /\ ~Given("PORT") => PortIn(Len(file)) = 0 /\ PortOf = 5000
         /\ ThreadsIn(Len(file)) = ThreadsGiven
         /\ ThreadsGiven \in Nat
         /\ Given("LOG_FILE") => /\ LogFileIn(Len(file)) = LogFileOf
                                 /\ LogFileOf # NoText /\ SinkOf = LogFileOf
         /\ ~Given("LOG_FILE") => /\ LogFileIn(Len(file)) = NoText
                                  /\ LogFileOf = NoText /\ SinkOf = "stderr"
<1>1. Len(file) \in Nat /\ \A k \in 1..Len(file) : file[k] \in LineSet
  BY FileTyped
<1>2. \A key : Lines(key) = Keyed(key, Len(file))
  BY FileTyped DEF Lines
<1>3. ASSUME NEW key, Given(key)
      PROVE  LastLine(key) \in LineSet /\ LastLine(key).key = key /\ LineOk(LastLine(key))
  <2>1. Keyed(key, Len(file)) # {} /\ Len(file) \in 0..Len(file)
    BY <1>1, <1>2, <1>3 DEF Given
  <2>2. /\ Max(Keyed(key, Len(file))) \in 1..Len(file)
        /\ file[Max(Keyed(key, Len(file)))].key = key
    BY <2>1, LastKeyed
  <2>3. QED
    BY <1>1, <1>2, <2>2 DEF LastLine
<1>4. /\ Given("PORT") => PortIn(Len(file)) = LastLine("PORT").num
      /\ ~Given("PORT") => PortIn(Len(file)) = 0
  BY <1>2 DEF Given, PortIn, LastLine
<1>5. /\ Given("NUM_THREADS") => ThreadsIn(Len(file)) = LastLine("NUM_THREADS").num
      /\ ~Given("NUM_THREADS") => ThreadsIn(Len(file)) = 0
  BY <1>2 DEF Given, ThreadsIn, LastLine
<1>6. /\ Given("LOG_FILE") => LogFileIn(Len(file)) = LastLine("LOG_FILE").text
      /\ ~Given("LOG_FILE") => LogFileIn(Len(file)) = NoText
  BY <1>2 DEF Given, LogFileIn, LastLine
<1>7. Given("PORT") => LastLine("PORT").num \in Int /\ LastLine("PORT").num # 0
  BY <1>3 DEF LineOk, LineSet, is_port_in_range
<1>8. Given("NUM_THREADS") => LastLine("NUM_THREADS").num \in Nat
  BY <1>3 DEF LineOk, LineSet
<1>9. Given("LOG_FILE") => LastLine("LOG_FILE").text # NoText
  BY <1>3 DEF LineOk
<1>10. QED
  BY <1>4, <1>5, <1>6, <1>7, <1>8, <1>9
  DEF PortOf, ThreadsGiven, LogFileOf, SinkOf

\* At the end of the file what it says replaces the configuration.
LEMMA StepApply ==
  ASSUME IInv, ApplyConf
  PROVE  IInv'
<1> USE DEF IInv
<1>0. /\ phase = "parse" /\ linesRead = Len(file) /\ server_conf' = Applied /\ phase' = "logging"
      /\ UNCHANGED <<file, linesRead, local, level, sink, nrouters, serverAttr, server, pool, attrCalls>>
  BY DEF ApplyConf
<1>1. /\ file \in Files /\ DOMAIN file = 1..Len(file)
      /\ \A k \in 1..Len(file) : LineOk(file[k])
  BY <1>0, FileTyped DEF ParseInv
<1>2. /\ local.port = PortIn(Len(file)) /\ local.threads = ThreadsIn(Len(file))
      /\ local.file = LogFileIn(Len(file))
  BY <1>0 DEF ParseInv
<1>3. server_conf'.port = PortOf /\ server_conf'.port \in Int
  BY <1>0, <1>1, <1>2, WholeFile DEF Applied, ConfInv
<1>4. server_conf'.threads = ThreadsOf /\ server_conf'.threads \in Int
  <2>1. ThreadsGiven \in Nat /\ local.threads = ThreadsGiven
    BY <1>1, <1>2, WholeFile
  <2>2. ToShort(ThreadsGiven) \in Int
    BY <2>1 DEF ToShort, MaxShort
  <2>3. QED
    BY <1>0, <2>1, <2>2 DEF Applied, ConfInv, ThreadsOf
<1>5. server_conf'.file = LogFileOf
  BY <1>0, <1>1, <1>2, WholeFile DEF Applied, ConfInv
<1>6. server_conf' \in ConfSet
  BY <1>0, <1>3, <1>4 DEF Applied, TypeInv, ConfSet
<1>7. TypeInv' /\ ParseInv'
  BY <1>0, <1>6 DEF TypeInv, ParseInv, Pcs
<1>8. ConfInv'
  BY <1>0, <1>1, <1>3, <1>4, <1>5, SameFile DEF ConfInv, Loaded, LineOk
<1>9. AttrInv' /\ ServerInv'
  BY <1>0, SameFile DEF AttrInv, ServerInv, ValidPort, Deciding, BothFiles
<1>10. QED
  BY <1>7, <1>8, <1>9

\* setup_logging leads the log to the file of the configuration, or dies.
LEMMA StepLogging ==
  ASSUME IInv, setup_logging
  PROVE  IInv'
<1> USE DEF IInv
<1>0. /\ phase = "logging"
      /\ \/ phase' = "program" /\ sink' = IF server_conf.file = NoText THEN sink ELSE server_conf.file
         \/ phase' = "died" /\ UNCHANGED sink
      /\ UNCHANGED <<file, linesRead, local, server_conf, nrouters, serverAttr, server, pool, attrCalls>>
  BY DEF setup_logging, Die
<1>1. TypeInv' /\ ParseInv'
  BY <1>0 DEF TypeInv, ParseInv, Pcs
<1>2. AttrInv' /\ ServerInv'
  BY <1>0, SameFile DEF AttrInv, ServerInv, ValidPort, Deciding, BothFiles
<1>3. ASSUME phase' = "program" PROVE sink' = SinkOf
  <2>1. server_conf.file = LogFileOf /\ sink \in {"stderr", SinkOf}
    BY <1>0 DEF ConfInv, Loaded
  <2>2. CASE file = Absent
    BY <1>0, <1>3, <2>1, <2>2 DEF Given, Lines, LogFileOf, SinkOf
  <2>3. CASE file # Absent
    <3>1. file \in Files /\ \A n \in DOMAIN file : LineOk(file[n])
      BY <1>0, <2>3 DEF ConfInv, Loaded
    <3>2. QED
      BY <1>0, <1>3, <2>1, <3>1, FileTyped, WholeFile
  <2>4. QED
    BY <2>2, <2>3
<1>4. ConfInv'
  BY <1>0, <1>3, SameFile DEF ConfInv, Loaded, LineOk
<1>5. QED
  BY <1>1, <1>2, <1>4

-----------------------------------------------------------------------------
(* The calls on the attributes. *)

\* One call more is the last of those it belongs to, and of no others.
LEMMA CallsNext ==
  ASSUME attrCalls \in Seq(CallSet), NEW c \in CallSet, attrCalls' = Append(attrCalls, c)
  PROVE  /\ attrCalls' \in Seq(CallSet)
         /\ IF is_port_in_range(c.port)
            THEN ValidPort' # {} /\ attrCalls'[Max(ValidPort)'] = c
            ELSE /\ ValidPort' = ValidPort
                 /\ ValidPort # {} => attrCalls'[Max(ValidPort)] = attrCalls[Max(ValidPort)]
         /\ IF c.cert # NULL /\ c.key # NULL
            THEN BothFiles' # {} /\ attrCalls'[Max(BothFiles)'] = c
            ELSE /\ BothFiles' = BothFiles
                 /\ BothFiles # {} => attrCalls'[Max(BothFiles)] = attrCalls[Max(BothFiles)]
         /\ IF c.off \/ (c.cert # NULL /\ c.key # NULL)
            THEN Deciding' # {} /\ attrCalls'[Max(Deciding)'] = c
            ELSE /\ Deciding' = Deciding
                 /\ Deciding # {} => attrCalls'[Max(Deciding)] = attrCalls[Max(Deciding)]
<1> DEFINE n == Len(attrCalls)
<1>1. /\ n \in Nat /\ DOMAIN attrCalls = 1..n /\ DOMAIN attrCalls' = 1 .. n + 1
      /\ attrCalls' \in Seq(CallSet) /\ attrCalls'[n + 1] = c
      /\ \A k \in 1..n : attrCalls'[k] = attrCalls[k]
  BY AppendProperties, LenProperties
<1>2. ASSUME NEW S, S \subseteq 1..n
      PROVE  /\ S \cup {n + 1} # {} /\ Max(S \cup {n + 1}) = n + 1
             /\ S # {} => attrCalls'[Max(S)] = attrCalls[Max(S)]
  <2>1. S \subseteq Int /\ n + 1 \in Int /\ (\A x \in S : x < n + 1) /\ S \subseteq 0..n
    BY <1>1, <1>2
  <2>2. Max(S \cup {n + 1}) = n + 1
    BY <2>1, MaxAdded, Zenon
  <2>3. S # {} => Max(S) \in S
    BY <1>1, <2>1, MaxBounded
  <2>4. S # {} => Max(S) \in 1..n
    BY <1>2, <2>3, Zenon
  <2>5. QED
    BY <1>1, <2>2, <2>4, Zenon
<1>3. ValidPort \subseteq 1..n /\ BothFiles \subseteq 1..n /\ Deciding \subseteq 1..n
  BY <1>1 DEF ValidPort, BothFiles, Deciding
<1>4. ValidPort' = IF is_port_in_range(c.port) THEN ValidPort \cup {n + 1} ELSE ValidPort
  BY <1>1 DEF ValidPort, is_port_in_range
<1>5. BothFiles' = IF c.cert # NULL /\ c.key # NULL THEN BothFiles \cup {n + 1}
                   ELSE BothFiles
  BY <1>1 DEF BothFiles
<1>6. Deciding' = IF c.off \/ (c.cert # NULL /\ c.key # NULL)
                  THEN Deciding \cup {n + 1} ELSE Deciding
  BY <1>1 DEF BothFiles, Deciding
<1>7. QED
  BY <1>1, <1>2, <1>3, <1>4, <1>5, <1>6, Zenon

Both(c) == c.cert # NULL /\ c.key # NULL

\* What a call makes of the attributes `old'.
Makes(old, c, a) ==
  /\ a.port = IF is_port_in_range(c.port) THEN c.port ELSE old.port
  /\ a.https <=> Both(c) \/ (~c.off /\ old.https)
  /\ a.cert = IF Both(c) THEN c.cert ELSE old.cert
  /\ a.key = IF Both(c) THEN c.key ELSE old.key

\* A call that makes of the attributes what its arguments say keeps them in step
\* with the calls.
LEMMA StepSetAttr ==
  ASSUME IInv, NEW a \in AttrSet, NEW c \in CallSet, SetAttr(a, c),
         ~ (c.off /\ Both(c)),
         Makes(IF serverAttr = NULL THEN NewAttr ELSE serverAttr, c, a)
  PROVE  IInv'
<1> USE DEF IInv
<1>0. /\ phase = "program" /\ nrouters > 0 /\ server = NULL
      /\ serverAttr' = a /\ attrCalls' = Append(attrCalls, c)
      /\ UNCHANGED <<phase, file, linesRead, local, server_conf, level, sink, nrouters, server, pool>>
  BY DEF SetAttr, confVars
<1>1. serverAttr' # NULL
  BY <1>0, NullAssumption
<1>2. TypeInv' /\ ParseInv'
  BY <1>0, CallsNext DEF TypeInv, ParseInv
<1>3. ConfInv' /\ ServerInv'
  BY <1>0, SameFile DEF ConfInv, Loaded, ServerInv, LineOk
<1>4. CASE serverAttr # NULL
  <2>1. Makes(serverAttr, c, a)
    BY <1>4
  <2>2. serverAttr'.port = IF ValidPort' # {} THEN attrCalls'[Max(ValidPort)'].port ELSE 0
    BY <1>0, <1>4, <2>1, CallsNext DEF Makes, AttrInv, TypeInv
  <2>3. BothFiles' # {} => /\ serverAttr'.cert = attrCalls'[Max(BothFiles)'].cert
                           /\ serverAttr'.key = attrCalls'[Max(BothFiles)'].key
    BY <1>0, <1>4, <2>1, CallsNext DEF Makes, AttrInv, TypeInv, Both
  <2>4. serverAttr'.https <=> Deciding' # {} /\ ~attrCalls'[Max(Deciding)'].off
    <3>1. CASE c.off \/ Both(c)
      BY <1>0, <1>4, <2>1, <3>1, CallsNext, Zenon DEF Makes, AttrInv, TypeInv, Both
    <3>2. CASE ~(c.off \/ Both(c))
      BY <1>0, <1>4, <2>1, <3>2, CallsNext, Zenon DEF Makes, AttrInv, TypeInv, Both
    <3>3. QED
      BY <3>1, <3>2
  <2>5. QED
    BY <1>0, <1>1, <1>2, <1>3, <2>2, <2>3, <2>4, Zenon DEF AttrInv
<1>5. CASE serverAttr = NULL
  <2>1. Makes(NewAttr, c, a) /\ attrCalls = <<>>
    BY <1>5 DEF AttrInv
  <2>2. ValidPort = {} /\ BothFiles = {} /\ Deciding = {}
    BY <2>1 DEF ValidPort, BothFiles, Deciding
  <2>3. NewAttr.port = 0 /\ NewAttr.https = FALSE
    BY DEF NewAttr
  <2>4. serverAttr'.port = IF ValidPort' # {} THEN attrCalls'[Max(ValidPort)'].port ELSE 0
    BY <1>0, <2>1, <2>2, <2>3, CallsNext DEF Makes, TypeInv
  <2>5. BothFiles' # {} => /\ serverAttr'.cert = attrCalls'[Max(BothFiles)'].cert
                           /\ serverAttr'.key = attrCalls'[Max(BothFiles)'].key
    BY <1>0, <2>1, <2>2, CallsNext DEF Makes, TypeInv, Both
  <2>6. serverAttr'.https <=> Deciding' # {} /\ ~attrCalls'[Max(Deciding)'].off
    <3>1. CASE c.off \/ Both(c)
      BY <1>0, <2>1, <2>2, <2>3, <3>1, CallsNext, Zenon DEF Makes, TypeInv, Both
    <3>2. CASE ~(c.off \/ Both(c))
      BY <1>0, <2>1, <2>2, <2>3, <3>2, CallsNext, Zenon DEF Makes, TypeInv, Both
    <3>3. QED
      BY <3>1, <3>2
  <2>7. QED
    BY <1>0, <1>1, <1>2, <1>3, <2>4, <2>5, <2>6, Zenon DEF AttrInv
<1>6. QED
  BY <1>4, <1>5

\* The calls of the program on its attributes.
LEMMA StepAttr ==
  ASSUME IInv,
         \/ ys_server_attr_init
         \/ \E p \in Ports, c, k \in MaybeFile : ys_server_attr_init_with(p, c, k)
         \/ \E p \in Ports : ys_server_set_port(p)
         \/ \E c, k \in MaybeFile : ys_server_use_https(c, k)
         \/ ys_server_disable_https
  PROVE  IInv'
<1>1. NULL \in MaybeFile /\ Ports \subseteq Int /\ NewAttr \in AttrSet
      /\ ~is_port_in_range(0)
  BY PortsAssumption DEF MaybeFile, NewAttr, AttrSet, is_port_in_range
<1>2. serverAttr # NULL => serverAttr \in AttrSet
  BY DEF IInv, TypeInv
<1>3. CASE ys_server_attr_init
  <2>1. Call(0, NULL, NULL, FALSE) \in CallSet
    BY <1>1 DEF Call, CallSet
  <2>2. Makes(NewAttr, Call(0, NULL, NULL, FALSE), NewAttr)
    BY <1>1 DEF Makes, Call, Both, NewAttr
  <2>3. ~Call(0, NULL, NULL, FALSE).off
    BY DEF Call
  <2>4. QED
    BY <1>1, <1>3, <2>1, <2>2, <2>3, StepSetAttr DEF ys_server_attr_init
<1>4. ASSUME NEW p \in Ports, NEW c \in MaybeFile, NEW k \in MaybeFile,
             ys_server_attr_init_with(p, c, k)
      PROVE  IInv'
  <2> DEFINE a == WithHttps(WithPort(NewAttr, p), c, k)
  <2>1. Call(p, c, k, FALSE) \in CallSet /\ ~Call(p, c, k, FALSE).off
    BY <1>1 DEF Call, CallSet
  <2>2. a \in AttrSet
    BY <1>1 DEF WithHttps, WithPort, NewAttr, AttrSet
  <2>3. Makes(NewAttr, Call(p, c, k, FALSE), a)
    BY <1>1 DEF Makes, Call, Both, NewAttr, WithHttps, WithPort
  <2>4. QED
    BY <1>4, <2>1, <2>2, <2>3, StepSetAttr DEF ys_server_attr_init_with
<1>5. ASSUME NEW p \in Ports, ys_server_set_port(p)
      PROVE  IInv'
  <2>0. serverAttr \in AttrSet /\ serverAttr # NULL
    BY <1>2, <1>5 DEF ys_server_set_port
  <2>1. Call(p, NULL, NULL, FALSE) \in CallSet /\ ~Call(p, NULL, NULL, FALSE).off
    BY <1>1 DEF Call, CallSet
  <2>2. WithPort(serverAttr, p) \in AttrSet
    BY <1>1, <2>0 DEF WithPort, AttrSet
  <2>3. Makes(serverAttr, Call(p, NULL, NULL, FALSE), WithPort(serverAttr, p))
    BY <1>1, <2>0 DEF Makes, Call, Both, WithPort, AttrSet
  <2>4. QED
    BY <1>5, <2>0, <2>1, <2>2, <2>3, StepSetAttr DEF ys_server_set_port
<1>6. ASSUME NEW c \in MaybeFile, NEW k \in MaybeFile, ys_server_use_https(c, k)
      PROVE  IInv'
  <2>0. serverAttr \in AttrSet /\ serverAttr # NULL
    BY <1>2, <1>6 DEF ys_server_use_https
  <2>1. Call(0, c, k, FALSE) \in CallSet /\ ~Call(0, c, k, FALSE).off
    BY <1>1 DEF Call, CallSet
  <2>2. WithHttps(serverAttr, c, k) \in AttrSet
    BY <1>1, <2>0 DEF WithHttps, AttrSet
  <2>3. Makes(serverAttr, Call(0, c, k, FALSE), WithHttps(serverAttr, c, k))
    BY <1>1, <2>0 DEF Makes, Call, Both, WithHttps, AttrSet
  <2>4. QED
    BY <1>6, <2>0, <2>1, <2>2, <2>3, StepSetAttr DEF ys_server_use_https
<1>7. CASE ys_server_disable_https
  <2>0. serverAttr \in AttrSet /\ serverAttr # NULL
    BY <1>2, <1>7 DEF ys_server_disable_https
  <2>1. Call(0, NULL, NULL, TRUE) \in CallSet /\ ~Both(Call(0, NULL, NULL, TRUE))
    BY <1>1 DEF Call, CallSet, Both
  <2>2. [serverAttr EXCEPT !.https = FALSE] \in AttrSet
    BY <2>0 DEF AttrSet
  <2>3. Makes(serverAttr, Call(0, NULL, NULL, TRUE), [serverAttr EXCEPT !.https = FALSE])
    BY <1>1, <2>0 DEF Makes, Call, Both, AttrSet
  <2>4. QED
    BY <1>7, <2>0, <2>1, <2>2, <2>3, StepSetAttr DEF ys_server_disable_https
<1>8. QED
  BY <1>3, <1>4, <1>5, <1>6, <1>7

-----------------------------------------------------------------------------
(* The server. *)

\* ys_server_init takes the attributes as they are.
LEMMA StepServerInit ==
  ASSUME IInv, ys_server_init
  PROVE  IInv'
<1> USE DEF IInv
<1>0. /\ phase = "program" /\ serverAttr # NULL /\ server = NULL
      /\ server' = [port |-> ServerPort, tls |-> serverAttr.https,
                    files |-> IF serverAttr.https THEN <<serverAttr.cert, serverAttr.key>> ELSE <<>>]
      /\ phase' \in {"program", "died"}
      /\ UNCHANGED <<file, linesRead, local, server_conf, level, sink, nrouters, serverAttr, pool, attrCalls>>
  BY DEF ys_server_init, Die, confVars
<1>1. TypeInv' /\ ParseInv'
  BY <1>0 DEF TypeInv, ParseInv, Pcs
<1>2. ConfInv'
  BY <1>0, SameFile DEF ConfInv, Loaded, LineOk
<1>3. AttrInv'
  BY <1>0 DEF AttrInv, ValidPort, Deciding, BothFiles
<1>4. server_conf.port = PortOf
  BY <1>0 DEF AttrInv, ConfInv, Loaded
<1>5. ServerInv'
  BY <1>0, <1>4, SameFile DEF ServerInv, ServerPort
<1>6. QED
  BY <1>1, <1>2, <1>3, <1>5

\* ys_server_start makes the pool, or dies.
LEMMA StepServerStart ==
  ASSUME IInv, ys_server_start
  PROVE  IInv'
<1> USE DEF IInv
<1>0. /\ phase = "program" /\ server # NULL
      /\ UNCHANGED <<file, linesRead, local, server_conf, level, sink, nrouters, serverAttr, server, attrCalls>>
      /\ \/ phase' = "listening" /\ pool' = Unsigned(server_conf.threads)
         \/ phase' = "died"
  BY DEF ys_server_start, Die, confVars
<1>1. CASE phase' = "died"
  BY <1>0, <1>1, StepDie DEF confVars
<1>2. CASE phase' = "listening"
  <2>1. TypeInv' /\ ParseInv'
    BY <1>0, <1>2 DEF TypeInv, ParseInv, Pcs
  <2>2. ConfInv'
    BY <1>0, <1>2, SameFile DEF ConfInv, Loaded, LineOk
  <2>3. AttrInv'
    BY <1>0 DEF AttrInv, ValidPort, Deciding, BothFiles
  <2>4. ServerInv'
    BY <1>0, <1>2, SameFile DEF ServerInv, AttrInv, Unsigned
  <2>5. QED
    BY <2>1, <2>2, <2>3, <2>4
<1>3. QED
  BY <1>0, <1>1, <1>2

LEMMA StepIInv == IInv /\ [StartupNext]_startupVars => IInv'
<1> SUFFICES ASSUME IInv, [StartupNext]_startupVars PROVE IInv'
  OBVIOUS
<1>1. CASE RefuseLine
  BY <1>1, StepDie DEF RefuseLine, Die
<1>2. CASE UNCHANGED startupVars
  <2>1. TypeInv' /\ ParseInv'
    BY <1>2 DEF IInv, TypeInv, ParseInv, startupVars, confVars, LineOk, PortIn, ThreadsIn,
                LogFileIn, Keyed
  <2>2. ConfInv' /\ ServerInv'
    BY <1>2, SameFile DEF IInv, ConfInv, ServerInv, Loaded, LineOk, startupVars, confVars,
                          Unsigned
  <2>3. AttrInv'
    BY <1>2 DEF IInv, AttrInv, ValidPort, Deciding, BothFiles, startupVars, confVars
  <2>4. QED
    BY <2>1, <2>2, <2>3 DEF IInv
<1>3. CASE StartupNext
  BY <1>1, <1>2, <1>3, StepRouterInit, StepParseLine, StepApply, StepLogging,
     StepAttr, StepServerInit, StepServerStart DEF StartupNext, StartupEnded
<1>4. QED
  BY <1>2, <1>3

\* The invariant that both properties rest on.
THEOREM IInvHolds == StartupSpec => []IInv
BY InitIInv, StepIInv, PTL DEF StartupSpec

\* A server that listens runs with what ys.conf says, for every content of the
\* file and however often ys_router_init loaded it (parse_config, setup_env).
THEOREM ConfigurationTakesEffect == StartupSpec => []ConfEffective
<1>1. IInv => ConfEffective
  <2> SUFFICES ASSUME IInv, Listening PROVE ConfEffective
    BY DEF ConfEffective
  <2>1. /\ Loaded /\ phase = "listening" /\ sink = SinkOf
        /\ file \in Files \cup {Absent}
        /\ file = Absent \/ \A n \in DOMAIN file : LineOk(file[n])
        /\ server_conf.port = PortOf /\ server_conf.threads = ThreadsOf
        /\ pool = Unsigned(server_conf.threads)
    BY DEF IInv, ConfInv, ServerInv, Loaded, Listening
  <2>2. ThreadsGiven \in Nat
    <3>1. CASE file = Absent
      BY <3>1 DEF ThreadsGiven, Given, Lines
    <3>2. CASE file # Absent
      BY <2>1, <3>2, FileTyped, WholeFile
    <3>3. QED
      BY <3>1, <3>2
  <2>3. ThreadsGiven <= MaxShort => pool = IF ThreadsGiven # 0 THEN ThreadsGiven ELSE 4
    BY <2>1, <2>2 DEF ThreadsOf, ToShort, Unsigned, MaxShort
  <2>4. QED
    BY <2>1, <2>3 DEF ConfEffective, PortOf, SinkOf, ThreadsGiven
<1>2. QED
  BY <1>1, IInvHolds, PTL

\* A server has the port and the TLS settings that the calls on its attributes
\* chose last, in whatever order they were made (ys_server_set_port,
\* ys_server_use_https, ys_server_disable_https, ys_server_init).
THEOREM ServerMatchesCalls == StartupSpec => []ServerAsCalled
<1>1. IInv => ServerAsCalled
  <2> SUFFICES ASSUME IInv, server # NULL PROVE ServerAsCalled
    BY DEF ServerAsCalled
  <2>1. ValidPort # {} => attrCalls[Max(ValidPort)].port # 0
    <3>1. attrCalls \in Seq(CallSet) /\ DOMAIN attrCalls = 1..Len(attrCalls) /\ Len(attrCalls) \in Nat
      BY LenProperties DEF IInv, TypeInv
    <3>2. ValidPort \subseteq 0..Len(attrCalls)
      BY <3>1 DEF ValidPort
    <3>3. ValidPort # {} => Max(ValidPort) \in ValidPort
      BY <3>1, <3>2, MaxBounded
    <3>4. QED
      BY <3>3 DEF ValidPort, is_port_in_range
  <2>2. /\ serverAttr # NULL
        /\ server.port = IF serverAttr.port # 0 THEN serverAttr.port ELSE PortOf
        /\ server.tls = serverAttr.https
        /\ serverAttr.https => server.files = <<serverAttr.cert, serverAttr.key>>
    BY DEF IInv, ServerInv
  <2>3. server.port = IF ValidPort # {} THEN attrCalls[Max(ValidPort)].port ELSE PortOf
    BY <2>1, <2>2 DEF IInv, AttrInv
  <2>4. server.tls <=> Deciding # {} /\ ~attrCalls[Max(Deciding)].off
    BY <2>2, Zenon DEF IInv, AttrInv
  <2>5. server.tls => BothFiles # {}
    <3>1. attrCalls \in Seq(CallSet) /\ DOMAIN attrCalls = 1..Len(attrCalls) /\ Len(attrCalls) \in Nat
      BY LenProperties DEF IInv, TypeInv
    <3>2. Deciding \subseteq 0..Len(attrCalls)
      BY <3>1 DEF Deciding, BothFiles
    <3>3. Deciding # {} => Max(Deciding) \in Deciding
      BY <3>1, <3>2, MaxBounded
    <3>4. QED
      BY <2>4, <3>3, Zenon DEF Deciding
  <2>6. server.tls => server.files = <<attrCalls[Max(BothFiles)].cert, attrCalls[Max(BothFiles)].key>>
    BY <2>2, <2>5 DEF IInv, AttrInv
  <2>7. QED
    BY <2>3, <2>4, <2>5, <2>6, Zenon DEF ServerAsCalled, PortOf
<1>2. QED
  BY <1>1, IInvHolds, PTL
=============================================================================
