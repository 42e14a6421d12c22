-------------------------------- MODULE Routes --------------------------------
(***************************************************************************)
(* The routes of the API: per controller and handler, the permissions any  *)
(* one of which admits to it (a decorator names one, except for the move   *)
(* on the board, which names two), and the guards that admit a request.    *)
(* The bodies of the handlers forward to the services, the modules of      *)
(* which model them; a route that asks for no permission has none here.    *)
(***************************************************************************)
EXTENDS Permissions

\* Handlers that each ask for one action on the resource.
Ask(resource, handlers) == [h \in DOMAIN handlers |-> {<<resource, handlers[h]>>}]
Unasked(handlers) == [h \in handlers |-> {}]

\* Both.
f ++ g == [h \in DOMAIN f \cup DOMAIN g |-> IF h \in DOMAIN f THEN f[h] ELSE g[h]]

ApplicationRoutes ==
  Ask("settings", [list |-> "view", forBranch |-> "view", setBranch |-> "manage"])
    ++ Ask("users", [forUser |-> "view", grant |-> "manage", revoke |-> "manage"])
    ++ Unasked({"mine"})

AuditRoutes == Ask("audit", [list |-> "view"])

AuthRoutes ==
  Unasked({"login", "refresh", "logout", "me", "forgotPassword", "resetPassword"})

BranchRoutes == Ask("branches", [list |-> "view", get |-> "view", create |-> "create",
                                 update |-> "update"])

CustomerRoutes ==
  Ask("customers", [list |-> "view", get |-> "view", overview |-> "view",
                    listVehicles |-> "view", create |-> "create", update |-> "update"])

CafeOrderRoutes ==
  Ask("services", [menu |-> "view", categories |-> "view", modifiers |-> "view"])
    ++ Ask("reports", [recipeCost |-> "finance", costing |-> "finance"])
    ++ Ask("invoices", [listOrders |-> "view", kitchen |-> "view",
                        createOrder |-> "create", ready |-> "update"])
    ++ Unasked({"health"})

CafeTillRoutes ==
  Ask("invoices", [close |-> "create"])
    ++ Ask("payments", [openSession |-> "create", closeSession |-> "create"])
    ++ Ask("inventory", [waste |-> "consume"])

DashboardRoutes ==
  Ask("dashboard", [summary |-> "view", revenueOverview |-> "view",
                    workshopStatus |-> "view", monthlyRevenue |-> "view",
                    techProductivity |-> "view", recentActivities |-> "view"])

EmployeeRoutes == Ask("users", [list |-> "view"])

ExpenseRoutes == Ask("expenses", [list |-> "view", create |-> "create"])

FileRoutes == Unasked({"createUpload", "putContent", "confirm", "getContent",
                       "listAttachments", "createAttachment"})

TemplateRoutes ==
  Ask("inspections", [list |-> "view", get |-> "view"])
    ++ Ask("settings", [create |-> "manage"])

InspectionRoutes ==
  Ask("inspections", [list |-> "view", get |-> "view", create |-> "create",
                      updateResults |-> "update", addFinding |-> "update",
                      complete |-> "complete"])

IntegrationRoutes ==
  Ask("visits", [context |-> "view", cafeOrder |-> "update"])
    ++ Ask("inspections", [requestTires |-> "update"])

StockRoutes ==
  Ask("inventory", [summary |-> "view", balances |-> "view", transactions |-> "view",
                    alerts |-> "view", adjust |-> "manage", transfer |-> "transfer"])

ReservationRoutes ==
  Ask("reservations", [listReservations |-> "view", reserve |-> "create",
                       release |-> "release", cancel |-> "release",
                       consume |-> "consume", returnParts |-> "consume"])

InvoiceRoutes ==
  Ask("invoices", [list |-> "view", get |-> "view", create |-> "create",
                   issue |-> "create", cancel |-> "delete"])
    ++ Ask("payments", [pay |-> "create"])

NotificationRoutes ==
  Ask("notifications", [list |-> "view", markRead |-> "view", markAllRead |-> "view"])
    ++ Unasked({"getPreferences", "upsertPreferences"})

OrganizationRoutes == Unasked({"me"})

PartRoutes == Ask("parts", [list |-> "view", get |-> "view", create |-> "create",
                            update |-> "update"])

PaymentRoutes == Ask("payments", [list |-> "view"])

PortalAuthRoutes == Unasked({"requestOtp", "verifyOtp"})

PortalRoutes ==
  Ask("portal", [vehicles |-> "view", visitStatus |-> "view", quotation |-> "view",
                 approve |-> "approve", reject |-> "reject", invoices |-> "view",
                 history |-> "view", feedback |-> "create"])

GoodsReceiptRoutes ==
  Ask("goods_receipts", [list |-> "view", get |-> "view", create |-> "create",
                         receive |-> "receive"])

PurchaseOrderRoutes ==
  Ask("purchase_orders", [list |-> "view", get |-> "view", create |-> "create",
                          submit |-> "create", approve |-> "approve",
                          cancel |-> "cancel"])

PurchaseRequestRoutes ==
  Ask("purchase_requests", [list |-> "view", get |-> "view", create |-> "create",
                            fromUnavailable |-> "create", submit |-> "create",
                            approve |-> "approve", reject |-> "reject",
                            cancel |-> "cancel"])

QualityRoutes ==
  Ask("qc", [get |-> "view", create |-> "create", updateItems |-> "update",
             pass |-> "approve", fail |-> "reject"])

QuotationRoutes ==
  Ask("quotations", [list |-> "view", get |-> "view", create |-> "create",
                     updateItems |-> "update", send |-> "send", approve |-> "approve",
                     reject |-> "reject", requestChanges |-> "reject",
                     newVersion |-> "update"])

CheckRoutes == Ask("users", [usersView |-> "view"]) ++ Unasked({"branchOnly"})

ReportRoutes ==
  Ask("reports", [workshop |-> "workshop", financial |-> "finance",
                  inventory |-> "inventory", technicianPerformance |-> "workshop",
                  analytics |-> "view", export |-> "export", getExport |-> "export"])

RoleRoutes == Ask("roles", [list |-> "manage", getPermissions |-> "manage",
                            updatePermissions |-> "manage"])

SearchRoutes == Unasked({"query"})

ServiceRoutes ==
  Ask("services", [list |-> "view", get |-> "view", create |-> "create",
                   update |-> "update", remove |-> "delete"])

SettingRoutes == Ask("settings", [get |-> "manage", update |-> "manage"])

SupplierRoutes == Ask("suppliers", [list |-> "view", get |-> "view",
                                    create |-> "create", update |-> "update"])

SyncRoutes == Ask("visits", [batch |-> "create"]) ++ Unasked({"status"})

TaxRoutes == Ask("taxes", [list |-> "view"])

TaskRoutes ==
  Ask("tasks", [myTasks |-> "view", get |-> "view", start |-> "complete",
                pause |-> "complete", complete |-> "complete"])

TireRoutes ==
  Ask("parts", [listProducts |-> "view", getProduct |-> "view", finder |-> "view",
                createProduct |-> "create"])
    ++ Ask("services", [listServices |-> "view"])
    ++ Ask("invoices", [listOrders |-> "view", getOrder |-> "view",
                        createOrder |-> "create", setItems |-> "update",
                        complete |-> "create", cancel |-> "cancel"])
    ++ Ask("work_orders", [alignment |-> "update"])
    ++ Unasked({"health"})

UserRoutes == Ask("users", [list |-> "view", get |-> "view", create |-> "create",
                            update |-> "update", updateStatus |-> "update"])

UxbJobRoutes ==
  Ask("services", [categories |-> "view", sizeClasses |-> "view", services |-> "view"])
    ++ Ask("board", [board |-> "view"])
    ++ Ask("visits", [listJobs |-> "view", getJob |-> "view", createJob |-> "create",
                      setItems |-> "update", advance |-> "update"])
    ++ Ask("invoices", [invoice |-> "create"])
    ++ Ask("reports", [profitability |-> "finance"])

UxbFilmRoutes ==
  Ask("visits", [setZone |-> "update", addReading |-> "update"])
    ++ Ask("inventory", [listRolls |-> "view", openRoll |-> "create",
                         consume |-> "consume"])

UxpRoutes == Unasked({"health"})

TicketRoutes == Ask("tickets", [list |-> "view", get |-> "view"])

VisitRoutes ==
  Ask("visits", [list |-> "view", get |-> "view", checkIn |-> "create",
                 deliver |-> "complete"])
    ++ [transition |-> {<<"board", "move">>, <<"visits", "update">>}]

VehicleRoutes == Ask("vehicles", [list |-> "view", get |-> "view", create |-> "create",
                                  update |-> "update"])

WorkOrderRoutes ==
  Ask("work_orders", [list |-> "view", get |-> "view", create |-> "create",
                      assign |-> "assign", start |-> "update", pause |-> "update",
                      complete |-> "complete", sendToQc |-> "complete",
                      cancel |-> "cancel"])
    ++ Ask("tasks", [additionalIssue |-> "create"])

BoardRoutes == Ask("board", [getBoard |-> "view"])

-----------------------------------------------------------------------------
\* What a controller's routes ask, as the set of the handlers' sets.
Asks(routes) == {routes[h] : h \in DOMAIN routes}

WorkshopAsks ==
  UNION {Asks(r) : r \in
    {ApplicationRoutes, AuditRoutes, AuthRoutes, BranchRoutes, CustomerRoutes,
     DashboardRoutes, EmployeeRoutes, ExpenseRoutes, FileRoutes, TemplateRoutes,
     InspectionRoutes, IntegrationRoutes, StockRoutes, ReservationRoutes,
     InvoiceRoutes, NotificationRoutes, OrganizationRoutes, PartRoutes, PaymentRoutes,
     GoodsReceiptRoutes, PurchaseOrderRoutes, PurchaseRequestRoutes, QualityRoutes,
     QuotationRoutes, CheckRoutes, ReportRoutes, RoleRoutes, SearchRoutes,
     ServiceRoutes, SettingRoutes, SupplierRoutes, SyncRoutes, TaxRoutes, TaskRoutes,
     UserRoutes, UxpRoutes, TicketRoutes, VisitRoutes, VehicleRoutes, WorkOrderRoutes,
     BoardRoutes}}

PortalAsks == Asks(PortalAuthRoutes) \cup Asks(PortalRoutes)

\* The controllers that require an application.
ShopAsks == [uxb      |-> Asks(UxbJobRoutes) \cup Asks(UxbFilmRoutes),
             tirezone |-> Asks(TireRoutes),
             dailycup |-> Asks(CafeOrderRoutes) \cup Asks(CafeTillRoutes)]

AllAsks == UNION {WorkshopAsks, PortalAsks, ShopAsks.uxb, ShopAsks.tirezone,
                  ShopAsks.dailycup}
=============================================================================
