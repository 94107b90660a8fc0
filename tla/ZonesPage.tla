------------------------------ MODULE ZonesPage ------------------------------
(***************************************************************************)
(* The list of zones with its dialogs for a new zone and for an import     *)
(* (pages/ZonesPage.jsx).  Creating a zone is a request for every server,  *)
(* then one for each record of the template; any of them may fail alone.   *)
(* Names and texts are reduced to whether the form accepts them.           *)
(***************************************************************************)
EXTENDS Naturals, FiniteSets

CONSTANTS Servers,       \* the servers the panel writes a new zone to
          RecordBound    \* bound: records of the default template

ASSUME ZonesAssumption == RecordBound \in Nat

VARIABLES
    template,  \* the default template: arrived, and its number of records
    create,    \* the dialog for a new zone
    steps,     \* the run of handleCreate
    import,    \* the dialog for an import
    errors,    \* the banner of the page
    owed       \* observer: what a run left undone, told and not yet closed

zonesVars == <<template, create, steps, import, errors, owed>>

ServerAnswers == {"created", "error", "dnssec"}
NoDialog == [open |-> FALSE, valid |-> FALSE, template |-> FALSE, dnssec |-> FALSE,
             error |-> FALSE, result |-> FALSE]
NoRun == [at |-> "none", left |-> 0, failed |-> FALSE, warned |-> FALSE]

ZonesTypeOK ==
    /\ template \in [arrived : BOOLEAN, records : 0..RecordBound]
    /\ create \in [open : BOOLEAN, valid : BOOLEAN, template : BOOLEAN, dnssec : BOOLEAN,
                   error : BOOLEAN, result : BOOLEAN]
    /\ steps \in [at : {"none", "zone", "servers", "records"}, left : 0..RecordBound,
                  failed : BOOLEAN, warned : BOOLEAN]
    /\ import \in [open : BOOLEAN, busy : BOOLEAN, valid : BOOLEAN, preview : BOOLEAN,
                   error : BOOLEAN]
    /\ errors \in {"none", "load", "records", "delete"}
    /\ owed \subseteq {"server", "dnssec", "record"}

ZonesInit ==
    /\ template \in [arrived : {FALSE}, records : 0..RecordBound]
    /\ create = NoDialog /\ steps = NoRun
    /\ import = [open |-> FALSE, busy |-> FALSE, valid |-> FALSE, preview |-> FALSE,
                 error |-> FALSE]
    /\ errors = "none" /\ owed = {}

-----------------------------------------------------------------------------
\* The dialog for a new zone.

Creating == steps.at # "none"

\* loadTemplates: the default template is chosen, whatever was entered.
TemplatesArrive ==
    /\ ~template.arrived
    /\ template' = [template EXCEPT !.arrived = TRUE]
    /\ create' = [create EXCEPT !.template = TRUE, !.dnssec = FALSE]
    /\ UNCHANGED <<steps, import, errors, owed>>

\* What the dialog tells is gone with it, and the page's banner too.
OpenCreate ==
    /\ ~create.open /\ ~import.open
    /\ create' = [NoDialog EXCEPT !.open = TRUE, !.template = template.arrived]
    /\ errors' = "none" /\ owed' = {}
    /\ UNCHANGED <<template, steps, import>>

\* Cancel and "close" work during the run too (only ESC, the overlay and the
\* cross wait for it); what the run then finds reaches nobody.
CloseCreate ==
    /\ create.open
    /\ create' = [create EXCEPT !.open = FALSE, !.error = FALSE, !.result = FALSE]
    /\ owed' = owed \ {"server", "dnssec"}
    /\ UNCHANGED <<template, steps, import, errors>>

\* The cross of the dialog's error.
DismissError ==
    /\ create.open /\ create.error
    /\ create' = [create EXCEPT !.error = FALSE]
    /\ owed' = owed \ {"server"}
    /\ UNCHANGED <<template, steps, import, errors>>

\* The name, the name servers and the DNSSEC options are entered; dnssec is
\* switched off again by a template.
FillCreate(valid, dnssec) ==
    /\ create.open
    /\ create' = [create EXCEPT !.valid = valid, !.dnssec = dnssec]
    /\ UNCHANGED <<template, steps, import, errors, owed>>

ChooseTemplate(chosen) ==
    /\ create.open /\ template.arrived /\ chosen # create.template
    /\ create' = [create EXCEPT !.template = chosen, !.dnssec = @ /\ ~chosen]
    /\ UNCHANGED <<template, steps, import, errors, owed>>

RecordsOf == IF create.template /\ template.arrived THEN template.records ELSE 0

\* handleCreate up to the request, with the template chosen now; what the checks refuse is told at once.
SubmitCreate ==
    /\ create.open /\ ~Creating
    /\ create' = [create EXCEPT !.error = ~create.valid, !.result = FALSE]
    /\ steps' = IF create.valid THEN [NoRun EXCEPT !.at = "zone", !.left = RecordsOf] ELSE steps
    /\ owed' = owed \ {"server", "dnssec"}
    /\ UNCHANGED <<template, import, errors>>

-----------------------------------------------------------------------------
\* The answers.

\* What closes the dialog: no server failed; a DNSSEC warning keeps it open.
\* The fields start anew, the chosen template stays chosen.
Finished(run) ==
    create' = [create EXCEPT !.open = @ /\ run.warned, !.valid = FALSE, !.dnssec = FALSE,
                             !.result = run.warned]

AnyError(answers) == \E s \in Servers : answers[s] = "error"

Warned(answers) == \E s \in Servers : answers[s] = "dnssec"

ZoneCreated(answers) ==
    LET run == [steps EXCEPT !.failed = AnyError(answers), !.warned = Warned(answers)]
    IN /\ steps.at = "zone"
       /\ owed' = owed \cup {w \in {"server", "dnssec"} :
                     create.open /\ \E s \in Servers : answers[s] = (IF w = "server" THEN "error" ELSE w)}
       /\ IF AnyError(answers)
          THEN /\ steps' = NoRun
               /\ create' = [create EXCEPT !.error = TRUE, !.result = TRUE]
               /\ UNCHANGED <<template, import, errors>>
          ELSE IF steps.left > 0
          THEN /\ steps' = [run EXCEPT !.at = "servers"]
               /\ create' = [create EXCEPT !.result = TRUE]
               /\ UNCHANGED <<template, import, errors>>
          ELSE /\ steps' = NoRun
               /\ Finished(run)
               /\ UNCHANGED <<template, import, errors>>

\* The records go to the first server that is reachable and writable; with
\* none they are left out in silence.
ServersArrive(some) ==
    /\ steps.at = "servers"
    /\ IF some THEN /\ steps' = [steps EXCEPT !.at = "records"]
                    /\ UNCHANGED create
       ELSE steps' = NoRun /\ Finished(steps)
    /\ UNCHANGED <<template, import, errors, owed>>

\* One refused record is enough.
RecordsFailed(refused) == refused \/ steps.failed

\* One record after the other; a refused one is named when all were tried.
RecordAnswered(refused) ==
    /\ steps.at = "records"
    /\ owed' = IF refused THEN owed \cup {"record"} ELSE owed
    /\ IF steps.left > 1
       THEN /\ steps' = [steps EXCEPT !.left = @ - 1, !.failed = RecordsFailed(refused)]
            /\ UNCHANGED <<create, errors>>
       ELSE /\ errors' = IF RecordsFailed(refused) THEN "records" ELSE errors
            /\ steps' = NoRun /\ Finished(steps)
    /\ UNCHANGED <<template, import>>

\* The request for the zone, or the one for the servers, fails as a whole: the
\* dialog stays and says so, even if the zone is there already.
CreateFails ==
    /\ steps.at \in {"zone", "servers"}
    /\ steps' = NoRun
    /\ create' = [create EXCEPT !.error = TRUE]
    /\ UNCHANGED <<template, import, errors, owed>>

-----------------------------------------------------------------------------
\* The page: the list, a zone deleted on every server it is on, the import.

\* loadZones, at the start and after every change; its error takes the banner.
ZonesFail ==
    /\ errors' = "load" /\ owed' = owed \ {"record"}
    /\ UNCHANGED <<template, create, steps, import>>

\* Every server is tried; the errors are named together.
ZoneDeleted(answers) ==
    /\ ~create.open /\ ~import.open
    /\ errors' = IF AnyError(answers) THEN "delete" ELSE errors
    /\ owed' = IF AnyError(answers) THEN owed \ {"record"} ELSE owed
    /\ UNCHANGED <<template, create, steps, import>>

CloseError ==
    /\ errors # "none" /\ ~create.open /\ ~import.open
    /\ errors' = "none" /\ owed' = owed \ {"record"}
    /\ UNCHANGED <<template, create, steps, import>>

OpenImport ==
    /\ ~import.open /\ ~create.open
    /\ import' = [import EXCEPT !.open = TRUE, !.preview = FALSE, !.error = FALSE]
    /\ errors' = "none" /\ owed' = owed \ {"record"}
    /\ UNCHANGED <<template, create, steps>>

CloseImport ==
    /\ import.open /\ ~import.busy
    /\ import' = [import EXCEPT !.open = FALSE, !.preview = FALSE, !.error = FALSE]
    /\ UNCHANGED <<template, create, steps, errors, owed>>

FillImport(valid) ==
    /\ import.open
    /\ import' = [import EXCEPT !.valid = valid]
    /\ UNCHANGED <<template, create, steps, errors, owed>>

\* Preview and import check the fields, then send what they hold now; that the
\* preview was of another text does not matter.
SendImport(preview) ==
    /\ import.open /\ ~import.busy /\ (preview \/ import.preview)
    /\ import' = [import EXCEPT !.busy = import.valid, !.error = ~import.valid,
                                !.preview = @ /\ ~preview]
    /\ UNCHANGED <<template, create, steps, errors, owed>>

ImportAnswered(answer) ==
    /\ import.busy
    /\ import' = CASE answer = "preview" -> [import EXCEPT !.busy = FALSE, !.preview = TRUE]
                   [] answer = "error" -> [import EXCEPT !.busy = FALSE, !.error = TRUE]
                   [] answer = "imported" ->
                        [open |-> FALSE, busy |-> FALSE, valid |-> FALSE,
                         preview |-> FALSE, error |-> FALSE]
    /\ UNCHANGED <<template, create, steps, errors, owed>>

ZonesNext ==
    \/ TemplatesArrive \/ OpenCreate \/ CloseCreate \/ SubmitCreate \/ CreateFails \/ DismissError
    \/ \E v, d \in BOOLEAN : FillCreate(v, d)
    \/ \E a \in [Servers -> ServerAnswers] : ZoneCreated(a) \/ ZoneDeleted(a)
    \/ \E b \in BOOLEAN :
         ChooseTemplate(b) \/ ServersArrive(b) \/ RecordAnswered(b) \/ FillImport(b)
         \/ SendImport(b)
    \/ ZonesFail \/ CloseError \/ OpenImport \/ CloseImport
    \/ \E a \in {"preview", "error", "imported"} : ImportAnswered(a)

ZonesSpec == ZonesInit /\ [][ZonesNext]_zonesVars

-----------------------------------------------------------------------------
\* A zone that was not created everywhere as asked is never passed over: while
\* no run is under way, the failure of a server and a DNSSEC warning that came
\* to the open dialog stand in it, and a refused record of the template in the
\* page's banner, until the user closes them or a newer error takes the banner.
CreateTold ==
    ~Creating =>
      /\ "server" \in owed => create.open /\ create.error
      /\ "dnssec" \in owed => create.open /\ create.result
      /\ "record" \in owed => errors = "records"

=============================================================================
