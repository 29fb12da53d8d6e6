------------------------------- MODULE McpServer -------------------------------
(***************************************************************************)
(* The MCP server (internal/adapters/mcp/server.go): a loop that reads     *)
(* JSON-RPC messages line by line and answers each before it reads the     *)
(* next, while the client goes on writing, cancels, or closes the stream.  *)
(*                                                                         *)
(* A line has form ("blank", "broken", "huge" or "message"), id (0 for a   *)
(* notification), method, and for calls whether the parameters parse, the  *)
(* tool and its arguments, "" where one is missing or no string.           *)
(***************************************************************************)
EXTENDS OscalDocuments, Scaffold

CONSTANTS
    Messages,     \* the lines that clients send
    MaxLines      \* bound: lines sent

VARIABLES
    inbox,        \* the lines on stdin that were not read yet
    closed,       \* stdin is at its end
    cancelled,    \* the context is done
    loop,         \* "running", or how Run ended
    answers,      \* what was written to stdout
    sent,         \* the number of lines that were sent
    asked         \* history: the lines that were read and are owed an answer

mcpVars == <<inbox, closed, cancelled, loop, answers, sent, asked>>

ASSUME McpAssumption ==
    \A m \in Messages :
        m \in [form : {"blank", "broken", "huge", "message"}, id : Nat,
               method : {m.method}, paramsParse : BOOLEAN, tool : {m.tool},
               arguments : {m.arguments}]

-----------------------------------------------------------------------------

(***************************************************************************)
(* The tools.  listTools: the arguments that a tool's schema requires, and *)
(* the values it names for those that are not free.                        *)
(***************************************************************************)
listTools ==
    [get_assurance_state |-> {"subject"},
     explain_claim |-> {"subject"},
     validate_oscal |-> {"content"},
     detect_drift |-> {"subject"},
     scaffold_compliance |-> {"profile"},
     project_oscal |-> {"subject", "document_type"},
     run_doctor |-> {}]

NamedValues ==
    [profile |-> {"nist-sp-800-53", "pci-dss", "soc-2", "iso-27001"},
     document_type |-> {"assessment-results", "component-definition", "ssp",
                        "assessment-plan", "poam"}]

Failure == [ok |-> FALSE, body |-> "error"]
Text(body) == [ok |-> TRUE, body |-> body]

Requiring(argument, result) == IF argument = "" THEN Failure ELSE result

\* A document as the text of an argument.
Parsed(content) == IF content = "poam" THEN ProjectPOAM(<<>>) ELSE Blank

\* Faulty variant of ProjectOscal: one type is not handled.
ProjectOscalNoPOAM(documentType) ==
    IF NormalizeDocumentType(documentType) \in {"", "plan-of-action-and-milestones"}
    THEN Failure ELSE Text("document")

\* The document of project_oscal, always of an UNKNOWN evaluation.
ProjectOscal(documentType) ==
    IF NormalizeDocumentType(documentType) = "" THEN Failure ELSE Text("document")

callTool(name, a) ==
    CASE name = "get_assurance_state" -> Requiring(a.subject, Text("UNKNOWN"))
      [] name = "explain_claim" -> Requiring(a.subject, Text("UNKNOWN"))
      [] name = "validate_oscal" ->
           Requiring(a.content,
             IF Validate(Parsed(a.content), a.schema).type = "" THEN Failure
             ELSE Text("report"))
      [] name = "detect_drift" -> Requiring(a.subject, Text("ASSURED"))
      [] name = "scaffold_compliance" ->
           Requiring(a.profile,
             IF GenerateScaffold(a.profile) = {} THEN Failure ELSE Text("manifests"))
      [] name = "project_oscal" ->
           Requiring(a.subject, Requiring(a.document_type, ProjectOscal(a.document_type)))
      [] name = "run_doctor" -> Text("checks")
      [] OTHER -> Failure

-----------------------------------------------------------------------------

(***************************************************************************)
(* The loop.  An answer has the id of its request, 0 for null, and whether *)
(* it is an error, of the protocol or of the tool.                         *)
(***************************************************************************)
Answer(id, result) == [id |-> id, ok |-> result.ok, body |-> result.body]

handleRequest(line) ==
    LET result ==
          CASE line.method \in {"initialize", "ping", "tools/list"} -> Text(line.method)
            [] line.method = "tools/call" /\ line.paramsParse ->
                 callTool(line.tool, line.arguments)
            [] OTHER -> Failure
    IN IF line.id = 0 THEN <<>> ELSE <<Answer(line.id, result)>>

\* What is written for a line that was read.
Replies(line) ==
    CASE line.form = "blank" -> <<>>
      [] line.form = "broken" -> <<Answer(0, Failure)>>
      [] OTHER -> handleRequest(line)

\* JSON-RPC: requests are answered, notifications are not, and what does not
\* parse is answered with an error.
Owed(line) == line.form = "broken" \/ (line.form = "message" /\ line.id # 0)

McpInit ==
    /\ inbox = <<>> /\ closed = FALSE
    /\ cancelled = FALSE
    /\ loop = "running"
    /\ answers = <<>>
    /\ sent = 0
    /\ asked = <<>>

\* The client writes a line; it numbers the requests it wants answered.
Send(message) ==
    /\ ~closed
    /\ sent < MaxLines
    /\ sent' = sent + 1
    /\ inbox' = Append(inbox, [message EXCEPT !.id = IF @ = 0 THEN 0 ELSE sent + 1])
    /\ UNCHANGED <<closed, cancelled, loop, answers, asked>>

CloseInput ==
    /\ closed' = TRUE
    /\ UNCHANGED <<inbox, cancelled, loop, answers, sent, asked>>

\* The context is looked at after a line was read, which is then lost.
CancelContext ==
    /\ cancelled' = TRUE
    /\ UNCHANGED <<inbox, closed, loop, answers, sent, asked>>

\* One turn of Run's loop.
ReadLine ==
    LET line == Head(inbox) IN
    /\ loop = "running"
    /\ inbox # <<>>
    /\ inbox' = Tail(inbox)
    /\ CASE line.form = "huge" ->
              loop' = "failed" /\ UNCHANGED <<answers, asked>>
         [] line.form # "huge" /\ cancelled ->
              loop' = "cancelled" /\ UNCHANGED <<answers, asked>>
         [] OTHER ->
              /\ answers' = answers \o Replies(line)
              /\ asked' = IF Owed(line) THEN Append(asked, line) ELSE asked
              /\ UNCHANGED loop
    /\ UNCHANGED <<closed, cancelled, sent>>

EndOfInput ==
    /\ loop = "running"
    /\ closed /\ inbox = <<>>
    /\ loop' = "ended"
    /\ UNCHANGED <<inbox, closed, cancelled, answers, sent, asked>>

McpNext ==
    \/ \E m \in Messages : Send(m)
    \/ CloseInput
    \/ CancelContext
    \/ ReadLine
    \/ EndOfInput

McpSpec == McpInit /\ [][McpNext]_mcpVars

(***************************************************************************)
(* Properties.                                                             *)
(***************************************************************************)

\* What a client that knows only tools/list takes for a complete call, and
\* for one with values that the list names.
Complete(line) ==
    /\ line.paramsParse
    /\ line.tool \in DOMAIN listTools
    /\ \A a \in listTools[line.tool] : line.arguments[a] # ""

Advertised(line) ==
    /\ Complete(line)
    /\ \A a \in listTools[line.tool] \cap DOMAIN NamedValues :
         line.arguments[a] \in NamedValues[a]

\* The answers are, in the order of the lines that were read, one for each
\* request and one for each line that does not parse, and none else: nothing
\* the client sends, none of it failing, makes the server skip, repeat or
\* swap an answer.  A call of a listed tool with the arguments its schema
\* requires has a result, apart from documents that are none, and a call
\* without them an error.
AnsweredAsAdvertised ==
    /\ Len(answers) = Len(asked)
    /\ \A i \in DOMAIN asked :
         /\ answers[i].id = IF asked[i].form = "broken" THEN 0 ELSE asked[i].id
         /\ (asked[i].form = "message" /\ asked[i].method = "tools/call") =>
              /\ answers[i].ok => Complete(asked[i])
              /\ (Advertised(asked[i]) /\ asked[i].tool # "validate_oscal")
                   => answers[i].ok
=============================================================================
