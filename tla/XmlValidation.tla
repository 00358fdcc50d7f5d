---------------------------- MODULE XmlValidation ----------------------------
(***************************************************************************)
(* The verdict on a generated document: which schemas a validator finds    *)
(* (utils/xml/validator.py), what each backend makes of the document       *)
(* (utils/xml/backends.py), and the answer of InvoiceService, which adds   *)
(* the national rules for the XRECHNUNG profile (invoice_service.py).      *)
(* What a schema says of a document is an input: the types an XSD rejects, *)
(* and the report of a Schematron stylesheet.                              *)
(***************************************************************************)

\* A schema file is missing, cannot be loaded, or loads; the EN 16931 rules
\* may be switched off; having no schema at all may be allowed.
SchemaFiles == {"missing", "broken", "intact"}
Setups      == [xsd : SchemaFiles, en16931 : SchemaFiles, xrechnung : SchemaFiles,
                enabled : BOOLEAN, required : BOOLEAN]

\* A run of a stylesheet raises, returns nothing, or reports findings.
Findings == {"failed-assert", "failed-assert warning", "successful-report warning"}
Reports  == [outcome : {"report"}, found : SUBSET Findings]
            \cup [outcome : {"nothing", "raises"}, found : {{}}]

-----------------------------------------------------------------------------
(***************************************************************************)
(* ValidationResult and the backends.                                      *)
(***************************************************************************)
ValidationResult(errors, warnings) ==
    [is_valid |-> errors = {}, errors |-> errors, warnings |-> warnings]

Merge(r, s) ==
    [is_valid |-> r.is_valid /\ s.is_valid, errors |-> r.errors \cup s.errors,
     warnings |-> r.warnings \cup s.warnings]

NoOp == ValidationResult({<<"NoOp", "no schemas">>}, {})

XsdOnly(rejected) == ValidationResult({<<"XSD", t>> : t \in rejected}, {})

Errors(r) == {<<"Schematron", f>> : f \in r.found \cap {"failed-assert"}}

\* Mutation of SchematronSaxon: a stylesheet that raises reports nothing.
SaxonForgiving(r) == ValidationResult(Errors(r), {})

SchematronSaxon(r) == ValidationResult(
    Errors(r) \cup {<<"Schematron", o>> : o \in {r.outcome} \ {"report"}},
    {<<"Schematron", f>> : f \in r.found \ {"failed-assert"}})

Combined(rejected, r) ==
    Merge(Merge(ValidationResult({}, {}), XsdOnly(rejected)), SchematronSaxon(r))

-----------------------------------------------------------------------------
(***************************************************************************)
(* ZugferdXmlValidator and InvoiceService.                                 *)
(***************************************************************************)
Schemas(setup) ==
    {f \in {"xsd", "en16931"} : setup[f] = "intact" /\ (f = "en16931" => setup.enabled)}

Startable(setup) == Schemas(setup) # {} \/ ~setup.required   \* else RuntimeError

ValidateXml(setup, rejected, r) ==
    CASE Schemas(setup) = {"xsd", "en16931"} -> Combined(rejected, r)
      [] Schemas(setup) = {"xsd"}            -> XsdOnly(rejected)
      [] Schemas(setup) = {"en16931"}        -> SchematronSaxon(r)
      [] OTHER                               -> NoOp

\* None is a missing or broken stylesheet of the national rules.
NationalRules(setup, r) == IF setup.xrechnung = "intact" THEN {SchematronSaxon(r)} ELSE {}

\* The is_valid and validation_errors of generate_invoice_files; the answer
\* takes the errors of the national rules over, and leaves the warnings out.
Answer(setup, profile, rejected, r, national) ==
    LET first == ValidateXml(setup, rejected, r)
        more  == {v \in NationalRules(setup, national) :
                    profile = "XRECHNUNG" /\ ~v.is_valid}
    IN  [is_valid |-> first.is_valid /\ more = {},
         validation_errors |-> first.errors \cup UNION {v.errors : v \in more}]

-----------------------------------------------------------------------------
Passes(r) == r.outcome = "report" /\ "failed-assert" \notin r.found

\* The answer on a document whose rejected types are these is the right one,
\* with every setup the service starts with and every report.
AnsweredExactly(rejected) ==
    \A setup \in {s \in Setups : Startable(s)}, profile \in {"COMFORT", "XRECHNUNG"},
       r, national \in Reports :
          LET answer == Answer(setup, profile, rejected, r, national)
          IN  /\ answer.is_valid = (answer.validation_errors = {})
              /\ answer.is_valid =
                    /\ Schemas(setup) # {}
                    /\ "xsd" \in Schemas(setup) => rejected = {}
                    /\ "en16931" \in Schemas(setup) => Passes(r)
                    /\ (profile = "XRECHNUNG" /\ setup.xrechnung = "intact") =>
                           Passes(national)

\* A document answered valid was held against the rules of its profile.  Not
\* so: a missing or broken file is passed over if another schema is there.
ProfileChecked(rejected) ==
    \A setup \in {s \in Setups : Startable(s)}, profile \in {"COMFORT", "XRECHNUNG"},
       r, national \in Reports :
          Answer(setup, profile, rejected, r, national).is_valid =>
              /\ {"xsd", "en16931"} \subseteq Schemas(setup)
              /\ profile = "XRECHNUNG" => setup.xrechnung = "intact"
=============================================================================
