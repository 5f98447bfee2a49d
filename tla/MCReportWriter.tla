---------------------------- MODULE MCReportWriter ----------------------------
(* An author, who writes a specification that an inspection reads while    *)
(* both it and a package inspection write the same report.                 *)
EXTENDS ReportWriter

MCNames    == {"source", "specification", "manifest", "member", "plan", "report"}
MCCommands == {"author", "refinement", "lease"}
MCKind     == [c \in MCCommands |-> CASE c = "author"     -> "author"
                                      [] c = "refinement" -> "inspect"
                                      [] c = "lease"      -> "package"]
MCInputs   == [c \in MCCommands |-> CASE c = "author"     -> <<"source">>
                                      [] c = "refinement" -> <<"specification">>
                                      [] c = "lease"      -> <<"manifest", "member", "plan">>]
MCOutput   == [c \in MCCommands |-> IF c = "author" THEN "specification" ELSE "report"]

(* The package inspection alone. *)
MCPackageKind   == [c \in {"lease"} |-> MCKind[c]]
MCPackageInputs == [c \in {"lease"} |-> MCInputs[c]]
MCPackageOutput == [c \in {"lease"} |-> MCOutput[c]]

Plain == [n \in MCNames |-> File(n)]

(* Nothing published yet; the specification a link to the report.          *)
MCDirectories ==
  {[Plain EXCEPT !["specification"] = NoEntry, !["report"] = NoEntry],
   [Plain EXCEPT !["specification"] = Link("report")]}
=============================================================================
