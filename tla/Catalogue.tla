----------------------------- MODULE Catalogue -----------------------------
(***************************************************************************)
(* The catalogue of parts, the vehicles they fit and their review          *)
(* (routes/admin.js, catalog.js, fitments.js).                             *)
(*                                                                         *)
(* A part is its primary_oem_number, which is unique, or a row that has    *)
(* none; a vehicle is a row of a make and model, and nothing keeps two     *)
(* rows from being alike.  Rows of either are never deleted: the handlers  *)
(* that would delete or edit them pass a string id, which the client       *)
(* refuses.                                                                *)
(***************************************************************************)
EXTENDS Naturals, Sequences, FiniteSets

CONSTANTS
    Users,        \* requests being served at once
    Parts,        \* OEM numbers, and rows without one
    Unnumbered,   \* those rows
    Models,       \* makes and models
    NoModel,      \* a row that names no vehicle
    MaxVehicles,  \* bound on the rows of vehicles
    MaxRequests   \* bound on the requests ever served

ASSUME CatalogueAssumption ==
    /\ NoModel \notin Models
    /\ Unnumbered \subseteq Parts
    /\ IsFiniteSet(Users) /\ IsFiniteSet(Parts)
    /\ MaxVehicles \in Nat
    /\ MaxRequests \in Nat

VARIABLES
    parts,      \* master_parts: status and source by number
    vehicles,   \* vehicles: their models, in the order of their creation
    fitments,   \* part_fitments: pairs of a part and a vehicle
    asked,      \* confirm_fit_requests: pairs of a part and a model
    answered,   \* what answers said was created, without an error, to fit a model
    req,        \* the requests being served
    served      \* how many requests were begun

catalogueVars == <<parts, vehicles, fitments, asked, answered>>

Status == {"none", "PENDING", "VERIFIED", "INACTIVE"}
Source == {"none", "SUPPLIER_IMPORT", "CONTRIBUTED"}
Part == [status : Status, source : Source]
NoPart == [status |-> "none", source |-> "none"]
Known(p) == parts[p] # NoPart
Missing == {p \in Parts : ~Known(p)}

(* A row without a number is never found again: it is a part of its own,   *)
(* which no request brought before.                                        *)
Fresh == {p \in Missing : p \in Unnumbered =>
                             \A d \in Users : req[d].op = "import" => p \notin req[d].new}

Idle == [op |-> "idle"]
BeginRequest(c, q) ==
    /\ req[c] = Idle
    /\ served < MaxRequests
    /\ served' = served + 1
    /\ req' = [req EXCEPT ![c] = q]
Continue(c, q) == req' = [req EXCEPT ![c] = q] /\ UNCHANGED served
End(c) == Continue(c, Idle)
AtOnce(c) == req[c] = Idle /\ served < MaxRequests /\ served' = served + 1 /\ UNCHANGED req

(* createMany with skipDuplicates.                                         *)
Created(new, status) ==
    parts' = [p \in Parts |-> IF p \in new /\ ~Known(p)
                              THEN [status |-> status, source |-> "SUPPLIER_IMPORT"]
                              ELSE parts[p]]

-----------------------------------------------------------------------------
(* The loop over the rows that name a vehicle.  promise: the rows that the *)
(* request created or found, and that the loop has met no error of.  (The  *)
(* answer of an import lists the first twenty errors: line 732.)           *)
Fitting(rows, model, promise) ==
    [op |-> "fit", todo |-> rows, model |-> model, promise |-> promise]

VehiclesOf(model) == {i \in DOMAIN vehicles : vehicles[i] = model}

(* A vehicle row was found: nothing removes it before the upsert.          *)
FitRow(c) ==
    /\ req[c].op = "fit"
    /\ \E p \in req[c].todo, i \in VehiclesOf(req[c].model) :
           /\ fitments' = fitments \cup {<<p, i>>}
           /\ Continue(c, [req[c] EXCEPT !.todo = @ \ {p}])
    /\ UNCHANGED <<parts, vehicles, asked, answered>>

(* None was found: one is created, though another request may have been    *)
(* first.                                                                  *)
MissVehicle(c) ==
    /\ req[c].op = "fit"
    /\ VehiclesOf(req[c].model) = {}
    /\ \E p \in req[c].todo :
           Continue(c, [op |-> "newVehicle", todo |-> req[c].todo, part |-> p,
                        model |-> req[c].model, promise |-> req[c].promise])
    /\ UNCHANGED catalogueVars

AddVehicleAndFit(c) ==
    LET p == req[c].part IN
    /\ req[c].op = "newVehicle"
    /\ Len(vehicles) < MaxVehicles
    /\ vehicles' = Append(vehicles, req[c].model)
    /\ fitments' = fitments \cup {<<p, Len(vehicles) + 1>>}
    /\ Continue(c, Fitting(req[c].todo \ {p}, req[c].model, req[c].promise))
    /\ UNCHANGED <<parts, asked, answered>>

(* A statement of the row failed: the row is collected among the errors.   *)
FailRow(c) ==
    /\ req[c].op \in {"fit", "newVehicle"}
    /\ \E p \in req[c].todo :
           /\ req[c].op = "newVehicle" => p = req[c].part
           /\ Continue(c, Fitting(req[c].todo \ {p}, req[c].model, req[c].promise \ {p}))
    /\ UNCHANGED catalogueVars

AnswerFitting(c) ==
    /\ req[c].op = "fit" /\ req[c].todo = {}
    /\ answered' = answered \cup (req[c].promise \X {req[c].model})
    /\ End(c)
    /\ UNCHANGED <<parts, vehicles, fitments, asked>>

-----------------------------------------------------------------------------
(* POST /catalog/bulk-import: the numbers are looked up; the unknown ones  *)
(* and the rows without one are created VERIFIED, each at once; an update  *)
(* of known ones casts their integer ids to uuid and so fails the request; *)
(* then the new rows, by that first lookup, are fitted to the vehicle they *)
(* name.  The loop finds its parts by number, and goes over a row without  *)
(* one with neither a fitment nor an error.                                *)
BeginImport(c) ==
    \E rows \in SUBSET ((Parts \ Unnumbered) \cup Fresh),
       model \in Models \cup {NoModel}, updates \in BOOLEAN :
        /\ rows # {}
        /\ updates => rows \ Missing # {}
        /\ BeginRequest(c, [op |-> "import", new |-> rows \cap Missing, model |-> model,
                     updates |-> updates])
        /\ UNCHANGED catalogueVars

FitmentRows_Inserted(new) == (new \cap Missing) \ Unnumbered
FitmentRows(new) == new \ Unnumbered

CreateParts(c) ==
    LET new == req[c].new IN
    /\ req[c].op = "import"
    /\ Created(new, "VERIFIED")
    /\ IF req[c].updates \/ req[c].model = NoModel
       THEN End(c)
       ELSE Continue(c, Fitting(FitmentRows(new), req[c].model, new))
    /\ UNCHANGED <<vehicles, fitments, asked, answered>>

(* POST /contribute: a number that is taken fails the request.  The part   *)
(* is fitted by its id, so it may lack a number.                           *)
Contribute(c) ==
    \E p \in Fresh, model \in Models \cup {NoModel} :
        /\ parts' = [parts EXCEPT ![p] = [status |-> "PENDING", source |-> "CONTRIBUTED"]]
        /\ IF model = NoModel THEN AtOnce(c) ELSE BeginRequest(c, Fitting({p}, model, {p}))
        /\ UNCHANGED <<vehicles, fitments, asked, answered>>

(* PATCH /catalog/parts/:id/approve, PATCH /catalog/parts/:id/reject.      *)
Review(c, status) ==
    \E p \in Parts :
        /\ Known(p)
        /\ AtOnce(c)
        /\ parts' = [parts EXCEPT ![p].status = status]
        /\ UNCHANGED <<vehicles, fitments, asked, answered>>
Approve(c) == Review(c, "VERIFIED")
RejectPart(c) == Review(c, "INACTIVE")

(* POST /vehicles.                                                         *)
AddVehicle(c) ==
    \E model \in Models :
        /\ Len(vehicles) < MaxVehicles
        /\ AtOnce(c)
        /\ vehicles' = Append(vehicles, model)
        /\ UNCHANGED <<parts, fitments, asked, answered>>

(* POST /fitments looks up the part and the vehicle.                       *)
AddFitment(c) ==
    \E p \in Parts, i \in DOMAIN vehicles :
        /\ Known(p)
        /\ AtOnce(c)
        /\ fitments' = fitments \cup {<<p, i>>}
        /\ UNCHANGED <<parts, vehicles, asked, answered>>

(* POST /fitments/bulk: a statement for each row, and an error for a row   *)
(* that the foreign keys refuse.  Rows only add, so they commute with what *)
(* the others do between them.                                             *)
BulkFitments(c) ==
    \E rows \in SUBSET (Parts \X (1 .. MaxVehicles)) :
        /\ AtOnce(c)
        /\ fitments' = fitments \cup {r \in rows : Known(r[1]) /\ r[2] \in DOMAIN vehicles}
        /\ UNCHANGED <<parts, vehicles, asked, answered>>

(* POST /confirm-request: a vehicle that is known to fit needs no request. *)
Fits(p, i) == <<p, i>> \in fitments
BeginAsk(c) ==
    \E p \in Parts, model \in Models :
        /\ Known(p)
        /\ VehiclesOf(model) = {} \/ \E i \in VehiclesOf(model) : ~Fits(p, i)
        /\ BeginRequest(c, [op |-> "ask", part |-> p, model |-> model])
        /\ UNCHANGED catalogueVars

CommitAsk(c) ==
    /\ req[c].op = "ask"
    /\ asked' = asked \cup {<<req[c].part, req[c].model>>}
    /\ End(c)
    /\ UNCHANGED <<parts, vehicles, fitments, answered>>

(* The process dies with the request.                                      *)
Die(c) ==
    /\ req[c] # Idle
    /\ End(c)
    /\ UNCHANGED catalogueVars

-----------------------------------------------------------------------------
CatalogueReq ==
    {Idle}
    \cup [op : {"fit"}, todo : SUBSET Parts, model : Models, promise : SUBSET Parts]
    \cup [op : {"newVehicle"}, todo : SUBSET Parts, part : Parts, model : Models,
          promise : SUBSET Parts]
    \cup [op : {"import"}, new : SUBSET Parts, model : Models \cup {NoModel},
          updates : BOOLEAN]
    \cup [op : {"ask"}, part : Parts, model : Models]

CatalogueInit ==
    /\ parts = [p \in Parts |-> NoPart]
    /\ vehicles = <<>>
    /\ fitments = {}
    /\ asked = {}
    /\ answered = {}
    /\ req = [c \in Users |-> Idle]
    /\ served = 0

CatalogueStep ==
    \E c \in Users :
        \/ FitRow(c) \/ MissVehicle(c) \/ AddVehicleAndFit(c) \/ FailRow(c)
        \/ AnswerFitting(c)
        \/ BeginImport(c) \/ CreateParts(c) \/ Contribute(c)
        \/ Approve(c) \/ RejectPart(c)
        \/ AddVehicle(c) \/ AddFitment(c) \/ BulkFitments(c)
        \/ BeginAsk(c) \/ CommitAsk(c)
        \/ Die(c)

(* What an answer leaves the caller to take for fitted is fitted: for      *)
(* every new row that has a number and met no error in the loop there is a *)
(* fitment to a vehicle of the model the row names, though another import  *)
(* may have created the part, and with another vehicle, between its lookup *)
(* and its createMany.  Rows without a number are excepted by name.        *)
FittedAsAnswered ==
    \A pair \in answered :
        pair[1] \notin Unnumbered => \E i \in VehiclesOf(pair[2]) : Fits(pair[1], i)

(* "fitments ... errors": the counts of the answer explain every new row.  *)
(* False: a row without a number is created, not fitted, and no error.     *)
EveryRowFitted ==
    \A pair \in answered : \E i \in VehiclesOf(pair[2]) : Fits(pair[1], i)
=============================================================================
