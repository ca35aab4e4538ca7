---------------------- MODULE PositionWorkbook_proofs ----------------------
(* What a workbook keeps of the position it was exported from, for every      *)
(* history of it: the layers each kind's columns pass agree, a kept position  *)
(* meets its kind's requirements, and the ledger the import makes of a sheet  *)
(* is the ledger the sheet was made of, row for row, up to the order of a     *)
(* day's rows.                                                                *)
EXTENDS PositionWorkbook, FiniteSetTheorems, TLAPS

Row == [amount : Amount \cup {0, Nil}, part : Amount \cup {0, Nil}]

\* Nothing that is asked for is missing, and a term is one.
ColumnsOK(kind, col) ==
  /\ col = [c \in Columns(kind) |-> col[c]]
  /\ \A c \in Layers(kind).form.must : col[c] # Nil
  /\ ValidTerm(kind, col)
  /\ kind = "bond" => col["coupon_disposition"] # Nil

LedgerOK(kind, ledger) ==
  /\ \E S : ledger \in Seq(S)
  /\ \A i \in DOMAIN ledger : ledger[i].type \in allowedTransactions(kind)

\* A position that matured has a maturity of that month.
EndOK(q) ==
  /\ q.status \in {"active", "matured", "terminated"}
  /\ q.status = "active" => q.ended = Nil
  /\ q.status = "matured" /\ ~q.deleted => \E i \in Matured(q.ledger) : q.ledger[i].date = q.ended

IsPosition(q) ==
  q = [kind |-> q.kind, deleted |-> q.deleted, col |-> q.col, owner |-> q.owner,
       entry |-> q.entry, tag |-> q.tag, status |-> q.status, ended |-> q.ended,
       reading |-> q.reading, ledger |-> q.ledger]

PositionOK(q) ==
  /\ IsPosition(q)
  /\ q.kind \in Kind /\ q.deleted \in BOOLEAN
  /\ ColumnsOK(q.kind, q.col)
  /\ q.owner \in Member \cup {Joint} /\ q.entry # Nil /\ q.tag \in TagId \cup {Nil}
  /\ q.reading \in [Month -> Seq(Row)]
  /\ LedgerOK(q.kind, q.ledger)
  /\ EndOK(q)

PositionsOK == \A p \in PosId : position[p] = Nil \/ PositionOK(position[p])

Tag == [name : Name, deleted : BOOLEAN]

TagsOK(tags) ==
  /\ tags \in [TagId -> Tag \cup {Nil}]
  /\ \A t, u \in LiveTags(tags) : tags[t].name = tags[u].name => t = u

\* The file was made of a position that could be exported.
ExportOK(f, from) ==
  /\ PositionOK(from.position) /\ ~from.position.deleted
  /\ TagsOK(from.tags)
  /\ from.position.tag \in LiveTags(from.tags) \cup {Nil}
  /\ \E sheet \in transactionsToExport(from.position.ledger) :
       f = BuildWorkbook(from.position, from.tags, sheet)

\* A workbook, edited or not.
WorkbookOK(f) ==
  /\ f = [kind |-> f.kind, detail |-> f.detail, ownership |-> f.ownership, email |-> f.email,
          entry |-> f.entry, tag |-> f.tag, rows |-> f.rows, ledger |-> f.ledger,
          garbled |-> f.garbled]
  /\ f.kind \in Kind
  /\ f.detail = [c \in Columns(f.kind) |-> f.detail[c]]
  /\ f.entry # Nil
  /\ f.ownership \in {"joint", "sole"}
  /\ f.rows \in [Month -> Row \cup {Nil}]
  /\ \E S : f.ledger \in Seq(S)

JobOK ==
  \/ job = Idle
  \/ job.do = "assign" /\ job.tag \in LiveTags(job.tags)
  \/ /\ job.do = "import" /\ job.tag \in LiveTags(job.tags) \cup {Nil}
     /\ WorkbookOK(job.file) /\ Valid(job.file)

Inv ==
  /\ position = [p \in PosId |-> position[p]]
  /\ PositionsOK
  /\ TagsOK(tag)
  /\ file # Nil => ExportOK(file, origin)
  /\ JobOK

----------------------------------------------------------------------------
(* The layers of each kind *)

\* What the layers of a kind have in common: a required column is stored and is
\* not dropped; every column is inserted, exported and read; an update asks again
\* for what is required, and has a field for whatever it sets.
LayersFit(kind) ==
  LET layers == Layers(kind)
  IN  /\ layers.form.must \subseteq Columns(kind) \ layers.drop
      /\ Columns(kind) \subseteq layers.insert \cap layers.seed
      /\ Columns(kind) \subseteq layers.export \cap layers.resolve
      /\ layers.form.must \cap layers.update \subseteq layers.revision.must
      /\ Columns(kind) \cap layers.update \subseteq layers.revision.must \cup layers.revision.may

\* The kinds, group by group.
LEMMA Kinds ==
  /\ Asset = {"bank_account", "property", "vehicle"}
  /\ Investment = {"stock", "mutual_fund", "gold", "bond", "time_deposit"}
  /\ Kind = Asset \cup {"liability", "receivable"} \cup Investment
  /\ \A kind \in {"liability", "receivable"} : kind \notin Asset /\ kind \notin Investment
  /\ \A kind \in Investment : kind \notin Asset
<1>1. DOMAIN AssetLayers = {"bank_account", "property", "vehicle"}  BY DEF AssetLayers
<1>2. DOMAIN DebtLayers = {"liability", "receivable"}  BY DEF DebtLayers
<1>3. DOMAIN InvestmentLayers = {"stock", "mutual_fund", "gold", "bond", "time_deposit"}
  BY DEF InvestmentLayers
<1> QED  BY <1>1, <1>2, <1>3 DEF Kind, Asset, Investment

\* Each kind's layers are those of its group.
LEMMA LayersByGroup ==
  /\ \A kind \in Asset : Layers(kind) = AssetLayers[kind]
  /\ \A kind \in Investment : Layers(kind) = InvestmentLayers[kind]
  /\ \A kind \in {"liability", "receivable"} : Layers(kind) = DebtLayers[kind]
<1>1. \A kind \in Asset : Layers(kind) = AssetLayers[kind]  BY Kinds, Zenon DEF Layers
<1>2. \A kind \in Investment : Layers(kind) = InvestmentLayers[kind]  BY Kinds, Zenon DEF Layers
<1>3. \A kind \in {"liability", "receivable"} : Layers(kind) = DebtLayers[kind]
  BY Kinds, Zenon DEF Layers
<1> QED  BY <1>1, <1>2, <1>3

\* The layers of the assets agree.
LEMMA AssetsFit ==
  ASSUME NEW kind \in {"bank_account", "property", "vehicle"}
  PROVE  LayersFit(kind)
<1>1. CASE kind = "bank_account"
  <2>1. Layers("bank_account") = AssetLayers["bank_account"]
    BY Kinds, LayersByGroup
  <2>2. AssetLayers["bank_account"] =
          Layer(createBankAccountReq, CreateBankAccount, updateBankAccountReq, UpdateBankAccount,
                bankAccountDetailFields, resolveBankAccountDetail, {}, CreateBankAccount)
    BY DEF AssetLayers
  <2>3. Columns("bank_account") = assets \cup bank_account_details
    BY Zenon DEF Columns
  <2> QED
    BY <1>1, <2>1, <2>2, <2>3 DEF LayersFit, Layer, createBankAccountReq,
       CreateBankAccount, updateBankAccountReq, UpdateBankAccount,
       bankAccountDetailFields, resolveBankAccountDetail, UpdateAssetRow, assets,
       bank_account_details
<1>2. CASE kind = "property"
  <2>1. Layers("property") = AssetLayers["property"]
    BY Kinds, LayersByGroup
  <2>2. AssetLayers["property"] =
          Layer(createPropertyReq, CreateProperty, updatePropertyReq, UpdateProperty,
                propertyDetailFields, resolvePropertyDetail, {}, CreateProperty)
    BY DEF AssetLayers
  <2>3. Columns("property") = assets \cup property_details
    BY Zenon DEF Columns
  <2> QED
    BY <1>2, <2>1, <2>2, <2>3 DEF LayersFit, Layer, createPropertyReq, CreateProperty,
       updatePropertyReq, UpdateProperty, propertyDetailFields, resolvePropertyDetail,
       UpdateAssetRow, assets, property_details
<1>3. CASE kind = "vehicle"
  <2>1. Layers("vehicle") = AssetLayers["vehicle"]
    BY Kinds, LayersByGroup
  <2>2. AssetLayers["vehicle"] =
          Layer(createVehicleReq, CreateVehicle, updateVehicleReq, UpdateVehicle,
                vehicleDetailFields, resolveVehicleDetail, {}, CreateVehicle)
    BY DEF AssetLayers
  <2>3. Columns("vehicle") = assets \cup vehicle_details
    BY Zenon DEF Columns
  <2> QED
    BY <1>3, <2>1, <2>2, <2>3 DEF LayersFit, Layer, createVehicleReq, CreateVehicle,
       updateVehicleReq, UpdateVehicle, vehicleDetailFields, resolveVehicleDetail,
       UpdateAssetRow, assets, vehicle_details
<1> QED  BY <1>1, <1>2, <1>3

\* Those of liabilities and receivables.
LEMMA DebtsFit ==
  ASSUME NEW kind \in {"liability", "receivable"}
  PROVE  LayersFit(kind)
<1>1. CASE kind = "liability"
  <2>1. Layers("liability") = DebtLayers["liability"]
    BY Kinds, LayersByGroup
  <2>2. DebtLayers["liability"] =
          Layer(createLiabilityReq, CreateLiability, updateLiabilityReq, UpdateLiability,
                liabilityDetailFields, resolveLiabilityDetail, {}, CreateLiability)
    BY DEF DebtLayers
  <2>3. Columns("liability") = liabilities
    BY Zenon DEF Columns
  <2> QED
    BY <1>1, <2>1, <2>2, <2>3 DEF LayersFit, Layer, createLiabilityReq,
       CreateLiability, updateLiabilityReq, UpdateLiability, liabilityDetailFields,
       resolveLiabilityDetail, liabilities
<1>2. CASE kind = "receivable"
  <2>1. Layers("receivable") = DebtLayers["receivable"]
    BY Kinds, LayersByGroup
  <2>2. DebtLayers["receivable"] =
          Layer(createReceivableReq, CreateReceivable, updateReceivableReq, UpdateReceivable,
                receivableDetailFields, resolveReceivableDetail, {}, CreateReceivable)
    BY DEF DebtLayers
  <2>3. Columns("receivable") = receivables
    BY Zenon DEF Columns
  <2> QED
    BY <1>2, <2>1, <2>2, <2>3 DEF LayersFit, Layer, createReceivableReq,
       CreateReceivable, updateReceivableReq, UpdateReceivable,
       receivableDetailFields, resolveReceivableDetail, receivables
<1> QED  BY <1>1, <1>2

\* Those of the investments.
LEMMA InvestmentsFit ==
  ASSUME NEW kind \in {"stock", "mutual_fund", "gold", "bond", "time_deposit"}
  PROVE  LayersFit(kind)
<1>1. CASE kind = "stock"
  <2>1. Layers("stock") = InvestmentLayers["stock"]
    BY Kinds, LayersByGroup
  <2>2. InvestmentLayers["stock"] =
          Layer(createStockReq, CreateStock, updateStockReq, UpdateStock,
                ExportStock, resolveStockDetail, {}, CreateStockWithSnapshotsAndLedger)
    BY DEF InvestmentLayers
  <2>3. Columns("stock") = investments \cup stock_details
    BY Zenon DEF Columns
  <2> QED
    BY <1>1, <2>1, <2>2, <2>3 DEF LayersFit, Layer, createStockReq, CreateStock,
       updateStockReq, UpdateStock, ExportStock, CreateStockWithSnapshotsAndLedger,
       resolveStockDetail, UpdateInvestmentRow, investments, stock_details
<1>2. CASE kind = "mutual_fund"
  <2>1. Layers("mutual_fund") = InvestmentLayers["mutual_fund"]
    BY Kinds, LayersByGroup
  <2>2. InvestmentLayers["mutual_fund"] =
          Layer(createMutualFundReq, CreateMutualFund, updateMutualFundReq, UpdateMutualFund,
                ExportMutualFund, resolveMutualFundDetail, {}, CreateMutualFundWithSnapshotsAndLedger)
    BY DEF InvestmentLayers
  <2>3. Columns("mutual_fund") = investments \cup mutual_fund_details
    BY Zenon DEF Columns
  <2> QED
    BY <1>2, <2>1, <2>2, <2>3 DEF LayersFit, Layer, createMutualFundReq,
       CreateMutualFund, updateMutualFundReq, UpdateMutualFund, ExportMutualFund,
       CreateMutualFundWithSnapshotsAndLedger, resolveMutualFundDetail,
       UpdateInvestmentRow, investments, mutual_fund_details
<1>3. CASE kind = "gold"
  <2>1. Layers("gold") = InvestmentLayers["gold"]
    BY Kinds, LayersByGroup
  <2>2. InvestmentLayers["gold"] =
          Layer(createGoldReq, CreateGold, updateGoldReq, UpdateGold,
                ExportGold, resolveGoldDetail, {}, CreateGoldWithSnapshotsAndLedger)
    BY DEF InvestmentLayers
  <2>3. Columns("gold") = investments \cup gold_details
    BY Zenon DEF Columns
  <2> QED
    BY <1>3, <2>1, <2>2, <2>3 DEF LayersFit, Layer, createGoldReq, CreateGold,
       updateGoldReq, UpdateGold, ExportGold, CreateGoldWithSnapshotsAndLedger,
       resolveGoldDetail, UpdateInvestmentRow, investments, gold_details
<1>4. CASE kind = "bond"
  <2>1. Layers("bond") = InvestmentLayers["bond"]
    BY Kinds, LayersByGroup
  <2>2. InvestmentLayers["bond"] =
          Layer(createBondReq, CreateBond, updateBondReq, UpdateBond,
                ExportBond, resolveBondDetail.read, resolveBondDetail.drop, CreateBondWithSnapshotsAndLedger)
    BY DEF InvestmentLayers
  <2>3. Columns("bond") = investments \cup bond_details
    BY Zenon DEF Columns
  <2> QED
    BY <1>4, <2>1, <2>2, <2>3 DEF LayersFit, Layer, createBondReq, CreateBond,
       updateBondReq, UpdateBond, ExportBond, CreateBondWithSnapshotsAndLedger,
       resolveBondDetail, UpdateInvestmentRow, investments, bond_details,
       primaryBondReq
<1>5. CASE kind = "time_deposit"
  <2>1. Layers("time_deposit") = InvestmentLayers["time_deposit"]
    BY Kinds, LayersByGroup
  <2>2. InvestmentLayers["time_deposit"] =
          Layer(createTimeDepositReq, CreateTimeDeposit, updateTimeDepositReq, UpdateTimeDeposit,
                ExportTimeDeposit, resolveTimeDepositDetail, {}, CreateTimeDepositWithSnapshotsAndLedger)
    BY DEF InvestmentLayers
  <2>3. Columns("time_deposit") = investments \cup time_deposit_details
    BY Zenon DEF Columns
  <2> QED
    BY <1>5, <2>1, <2>2, <2>3 DEF LayersFit, Layer, createTimeDepositReq,
       CreateTimeDeposit, updateTimeDepositReq, UpdateTimeDeposit, ExportTimeDeposit,
       CreateTimeDepositWithSnapshotsAndLedger, resolveTimeDepositDetail,
       UpdateInvestmentRow, investments, time_deposit_details
<1> QED  BY <1>1, <1>2, <1>3, <1>4, <1>5

\* Those of every kind.
LEMMA AllFit ==
  ASSUME NEW kind \in Kind
  PROVE  LayersFit(kind)
BY Kinds, AssetsFit, DebtsFit, InvestmentsFit

\* A bond's disposition, and the terms that only its form asks for.
LEMMA BondLayers ==
  /\ {"bond_type", "coupon_disposition"} \subseteq Columns("bond")
  /\ "coupon_disposition" \in Layers("bond").update
  /\ "coupon_disposition" \in Layers("bond").form.may \cap Layers("bond").revision.may
  /\ primaryBondReq \subseteq Layers("bond").drop
<1>1. Layers("bond") = InvestmentLayers["bond"]  BY Kinds, LayersByGroup
<1>2. InvestmentLayers["bond"] =
        Layer(createBondReq, CreateBond, updateBondReq, UpdateBond, ExportBond,
              resolveBondDetail.read, resolveBondDetail.drop, CreateBondWithSnapshotsAndLedger)
  BY DEF InvestmentLayers
<1>3. Columns("bond") = investments \cup bond_details  BY Zenon DEF Columns
<1> QED
  BY <1>1, <1>2, <1>3 DEF Layer, createBondReq, updateBondReq, UpdateBond, resolveBondDetail,
                         primaryBondReq, bond_details

\* The disposition of coupons is a bond's column and no other kind's.
LEMMA OnlyBondsPayCoupons ==
  ASSUME NEW kind \in Kind, "coupon_disposition" \in Columns(kind)
  PROVE  kind = "bond"
<1>1. ASSUME kind = "bank_account" PROVE FALSE
  <2>1. Columns("bank_account") = assets \cup bank_account_details  BY Zenon DEF Columns
  <2> QED  BY <1>1, <2>1 DEF assets, bank_account_details
<1>2. ASSUME kind = "property" PROVE FALSE
  <2>1. Columns("property") = assets \cup property_details  BY Zenon DEF Columns
  <2> QED  BY <1>2, <2>1 DEF assets, property_details
<1>3. ASSUME kind = "vehicle" PROVE FALSE
  <2>1. Columns("vehicle") = assets \cup vehicle_details  BY Zenon DEF Columns
  <2> QED  BY <1>3, <2>1 DEF assets, vehicle_details
<1>4. ASSUME kind = "liability" PROVE FALSE
  <2>1. Columns("liability") = liabilities  BY Zenon DEF Columns
  <2> QED  BY <1>4, <2>1 DEF liabilities
<1>5. ASSUME kind = "receivable" PROVE FALSE
  <2>1. Columns("receivable") = receivables  BY Zenon DEF Columns
  <2> QED  BY <1>5, <2>1 DEF receivables
<1>6. ASSUME kind = "stock" PROVE FALSE
  <2>1. Columns("stock") = investments \cup stock_details  BY Zenon DEF Columns
  <2> QED  BY <1>6, <2>1 DEF investments, stock_details
<1>7. ASSUME kind = "mutual_fund" PROVE FALSE
  <2>1. Columns("mutual_fund") = investments \cup mutual_fund_details  BY Zenon DEF Columns
  <2> QED  BY <1>7, <2>1 DEF investments, mutual_fund_details
<1>8. ASSUME kind = "gold" PROVE FALSE
  <2>1. Columns("gold") = investments \cup gold_details  BY Zenon DEF Columns
  <2> QED  BY <1>8, <2>1 DEF investments, gold_details
<1>9. ASSUME kind = "time_deposit" PROVE FALSE
  <2>1. Columns("time_deposit") = investments \cup time_deposit_details  BY Zenon DEF Columns
  <2> QED  BY <1>9, <2>1 DEF investments, time_deposit_details
<1> QED  BY Kinds, <1>1, <1>2, <1>3, <1>4, <1>5, <1>6, <1>7, <1>8, <1>9

\* A deposit's dates are among its columns.
LEMMA DepositsHaveTerms ==
  {"placement_date", "maturity_date"} \subseteq Layers("time_deposit").form.must
<1>1. Layers("time_deposit") = InvestmentLayers["time_deposit"]  BY Kinds, LayersByGroup
<1>2. InvestmentLayers["time_deposit"].form = createTimeDepositReq  BY DEF InvestmentLayers, Layer
<1> QED  BY <1>1, <1>2 DEF createTimeDepositReq

----------------------------------------------------------------------------
(* Columns *)

\* What an insert makes of one column.
LEMMA InsertedAt ==
  ASSUME NEW kind, NEW columns, NEW given,
         NEW c \in Columns(kind), c \in columns \cap DOMAIN given
  PROVE  Inserted(kind, columns, given)[c] =
           IF c = "coupon_disposition" /\ given[c] = Nil THEN Default ELSE given[c]
BY DEF Inserted

\* A row inserted from a form that meets its requirements meets them.
LEMMA NewColumns ==
  ASSUME NEW kind \in Kind, NEW columns, NEW given,
         Columns(kind) \subseteq columns,
         \A c \in Layers(kind).form.must : c \in DOMAIN given /\ given[c] # Nil,
         kind = "bond" => "coupon_disposition" \in DOMAIN given,
         ValidTerm(kind, given)
  PROVE  ColumnsOK(kind, Inserted(kind, columns, given))
<1> DEFINE col == Inserted(kind, columns, given)
           must == Layers(kind).form.must
<1>1. must \subseteq Columns(kind)  BY AllFit DEF LayersFit
<1>2. col = [c \in Columns(kind) |-> col[c]]  BY DEF Inserted
<1>3. ASSUME NEW c \in must PROVE col[c] # Nil
  BY <1>1, <1>3, InsertedAt, NilAssumption
<1>4. ValidTerm(kind, col)
  <2>1. SUFFICES ASSUME kind = "time_deposit" PROVE col["placement_date"] < col["maturity_date"]
    BY DEF ValidTerm
  <2>2. "placement_date" \in must /\ "maturity_date" \in must  BY <2>1, DepositsHaveTerms
  <2>3. given["placement_date"] < given["maturity_date"]  BY <2>1 DEF ValidTerm
  <2>4. col["placement_date"] = given["placement_date"] /\ col["maturity_date"] = given["maturity_date"]
    BY <1>1, <2>2, InsertedAt
  <2> QED  BY <2>3, <2>4
<1>5. kind = "bond" => col["coupon_disposition"] # Nil
  BY BondLayers, InsertedAt, NilAssumption
<1> QED  BY <1>2, <1>3, <1>4, <1>5 DEF ColumnsOK

\* So does a row that such a form updates.
LEMMA UpdatedColumns ==
  ASSUME NEW kind \in Kind, NEW col, ColumnsOK(kind, col), NEW form,
         DOMAIN form = Layers(kind).revision.must \cup Layers(kind).revision.may,
         Missing(Layers(kind).revision.must, form) = {},
         ValidTerm(kind, Updated(kind, col, form))
  PROVE  ColumnsOK(kind, Updated(kind, col, form))
<1> DEFINE update == Layers(kind).update
           must == Layers(kind).form.must
           given == Inserted(kind, update, form)
           after == Updated(kind, col, form)
<1>1. after = [c \in Columns(kind) |-> IF c \in update THEN given[c] ELSE col[c]]  BY DEF Updated
<1>2. /\ must \subseteq Columns(kind)
      /\ must \cap update \subseteq Layers(kind).revision.must
  BY AllFit DEF LayersFit
<1> HIDE DEF given, after
<1>3. ASSUME NEW c \in must PROVE after[c] # Nil
  <2>1. CASE c \in update
    <3>1. c \in DOMAIN form /\ form[c] # Nil  BY <1>2, <2>1 DEF Missing
    <3>2. given[c] # Nil  BY <1>2, <2>1, <3>1, InsertedAt DEF given
    <3> QED  BY <1>1, <1>2, <2>1, <3>2
  <2>2. CASE c \notin update
    BY <1>1, <1>2, <2>2 DEF ColumnsOK
  <2> QED  BY <2>1, <2>2
<1>4. ASSUME kind = "bond" PROVE after["coupon_disposition"] # Nil
  <2>1. "coupon_disposition" \in Columns(kind) \cap update \cap DOMAIN form  BY <1>4, BondLayers
  <2>2. given["coupon_disposition"] # Nil  BY <2>1, InsertedAt, NilAssumption DEF given
  <2> QED  BY <1>1, <2>1, <2>2
<1>5. after = [c \in Columns(kind) |-> after[c]]  BY <1>1
<1> QED  BY <1>3, <1>4, <1>5 DEF ColumnsOK, after

\* A form saved as it was opened changes no column.
LEMMA Resaved ==
  ASSUME NEW kind \in Kind, NEW col, ColumnsOK(kind, col)
  PROVE  Updated(kind, col, [c \in Layers(kind).revision.must \cup Layers(kind).revision.may |-> col[c]])
           = col
<1> DEFINE update == Layers(kind).update
           opened == [c \in Layers(kind).revision.must \cup Layers(kind).revision.may |-> col[c]]
           given == Inserted(kind, update, opened)
<1>1. ASSUME NEW c \in Columns(kind), c \in update PROVE given[c] = col[c]
  <2>1. c \in DOMAIN opened /\ opened[c] = col[c]  BY <1>1, AllFit DEF LayersFit
  <2>2. c = "coupon_disposition" => col[c] # Nil  BY OnlyBondsPayCoupons DEF ColumnsOK
  <2> HIDE DEF opened
  <2> QED  BY <1>1, <2>1, <2>2, InsertedAt
<1> HIDE DEF given
<1>2. [c \in Columns(kind) |-> IF c \in update THEN given[c] ELSE col[c]] =
        [c \in Columns(kind) |-> col[c]]
  BY <1>1
<1>3. col = [c \in Columns(kind) |-> col[c]]  BY DEF ColumnsOK
<1>4. Updated(kind, col, opened) = [c \in Columns(kind) |-> IF c \in update THEN given[c] ELSE col[c]]
  BY DEF Updated, given
<1> QED  BY <1>2, <1>3, <1>4

----------------------------------------------------------------------------
(* Readings *)

\* What is entered for a month, and the zero of a closed one, are readings.
LEMMA ReadingsAreRows ==
  ASSUME NEW kind
  PROVE  Readings(kind) \subseteq Row /\ ZeroReading(kind) \in Row
<1>1. \/ Readings(kind) = [amount : Amount, part : Amount \ {0}]
      \/ Readings(kind) = [amount : Amount \ {0}, part : Amount]
      \/ Readings(kind) = [amount : Amount, part : {Nil}]
  BY Zenon DEF Readings
<1>2. Readings(kind) \subseteq Row
  <2>1. [amount : Amount, part : Amount \ {0}] \subseteq Row  BY DEF Row
  <2>2. [amount : Amount \ {0}, part : Amount] \subseteq Row  BY DEF Row
  <2>3. [amount : Amount, part : {Nil}] \subseteq Row  BY DEF Row
  <2> QED  BY <1>1, <2>1, <2>2, <2>3
<1>3. ZeroReading(kind) \in Row  BY DEF Row, ZeroReading
<1> QED  BY <1>2, <1>3

\* Closing a month and reverting it leave sequences of readings.
LEMMA ClosedReadings ==
  ASSUME NEW kind, NEW rows \in Seq(Row)
  PROVE  writeCloseSnapshot(kind, rows) \in Seq(Row) /\ revertCloseSnapshot(rows) \in Seq(Row)
<1>1. ZeroReading(kind) \in Row  BY ReadingsAreRows
<1>3. rows # <<>> => Tail(rows) \in Seq(Row)  OBVIOUS
<1>4. \A s \in Seq(Row) : <<ZeroReading(kind)>> \o s \in Seq(Row)  BY <1>1
<1> QED  BY <1>3, <1>4 DEF writeCloseSnapshot, revertCloseSnapshot

\* The head of a month's readings is one of them.
LEMMA Head1 ==
  ASSUME NEW rows \in Seq(Row), rows # <<>>
  PROVE  Head(rows) \in Row
OBVIOUS

\* A row goes into the sheet and comes out of it, but for the total of a quantity.
LEMMA CellsComeBack ==
  ASSUME NEW kind, NEW r \in Row
  PROVE  /\ snapshotRowCells(kind, r) \in Row
         /\ snapshotRowCells(kind, r) # Nil
         /\ parseValues(kind, snapshotRowCells(kind, r)) =
              IF shapeForSubtype(kind) = "quantity" THEN [r EXCEPT !.amount = r.part] ELSE r
<1>1. snapshotRowCells(kind, r) \in Row  BY DEF snapshotRowCells, Row
<1>2. snapshotRowCells(kind, r) # Nil  BY <1>1, NilAssumption DEF Row
<1>3. CASE shapeForSubtype(kind) = "quantity"
  <2>1. snapshotRowCells(kind, r) = [r EXCEPT !.amount = Nil]  BY <1>3 DEF snapshotRowCells
  <2>2. parseValues(kind, snapshotRowCells(kind, r)) = [[r EXCEPT !.amount = Nil] EXCEPT !.amount = r.part]
    BY <1>3, <2>1 DEF parseValues, Row
  <2>3. [[r EXCEPT !.amount = Nil] EXCEPT !.amount = r.part] = [r EXCEPT !.amount = r.part]
    BY DEF Row
  <2> QED  BY <1>1, <1>2, <1>3, <2>2, <2>3
<1> QED  BY <1>1, <1>2, <1>3 DEF snapshotRowCells, parseValues

\* A parsed row is a reading.
LEMMA ParsedRows ==
  ASSUME NEW kind, NEW r \in Row
  PROVE  parseValues(kind, r) \in Row
BY DEF parseValues, Row

----------------------------------------------------------------------------
(* Ledgers *)

\* The rows of l are the rows of k in another order, but for when they were written.
Matches(b, l, k) ==
  /\ DOMAIN l = DOMAIN k
  /\ b \in [DOMAIN l -> DOMAIN k]
  /\ \A i, j \in DOMAIN l : b[i] = b[j] => i = j
  /\ \A j \in DOMAIN k : \E i \in DOMAIN l : b[i] = j
  /\ \A i \in DOMAIN l : l[i].type = k[b[i]].type /\ l[i].date = k[b[i]].date

\* An injection of the rows of a ledger into themselves reaches all of them.
LEMMA OrdersReachAll ==
  ASSUME NEW n \in Nat, NEW o \in [1 .. n -> 1 .. n],
         \A i, j \in 1 .. n : o[i] = o[j] => i = j,
         NEW k \in 1 .. n
  PROVE  \E i \in 1 .. n : o[i] = k
<1>1. IsFiniteSet(1 .. n)  BY FS_Interval
<1>2. o \in Injection(1 .. n, 1 .. n)  BY DEF Injection, IsInjective
<1>3. o \in Surjection(1 .. n, 1 .. n)  BY <1>1, <1>2, FS_Injection
<1> QED  BY <1>3 DEF Surjection

\* A sheet has the rows of its ledger.
LEMMA SheetMatches ==
  ASSUME NEW S, NEW ledger \in Seq(S), NEW sheet \in transactionsToExport(ledger)
  PROVE  /\ \E T : sheet \in Seq(T)
         /\ \E b : Matches(b, sheet, ledger)
<1> DEFINE n == Len(ledger)
<1>1. n \in Nat /\ DOMAIN ledger = 1 .. n  OBVIOUS
<1>2. PICK o \in Orders(ledger) :
        sheet = [i \in DOMAIN ledger |-> TradesOf(ledger)[o[Len(ledger) + 1 - i]]]
  BY DEF transactionsToExport
<1>3. o \in [1 .. n -> 1 .. n] /\ \A i, j \in 1 .. n : o[i] = o[j] => i = j
  BY <1>1, <1>2 DEF Orders
<1> DEFINE b == [i \in 1 .. n |-> o[n + 1 - i]]
<1> HIDE DEF n
<1>4. \A i \in 1 .. n : n + 1 - i \in 1 .. n  BY <1>1
<1>5. b \in [1 .. n -> 1 .. n]  BY <1>3, <1>4
<1>6. ASSUME NEW i \in 1 .. n, NEW j \in 1 .. n, b[i] = b[j] PROVE i = j
  <2>1. n + 1 - i = n + 1 - j  BY <1>3, <1>4, <1>6
  <2> QED  BY <1>1, <2>1
<1>7. sheet = [i \in 1 .. n |-> TradesOf(ledger)[b[i]]]  BY <1>1, <1>2 DEF n
<1> HIDE DEF b
<1>8. \A k \in 1 .. n : \E i \in 1 .. n : b[i] = k
  BY <1>1, <1>5, <1>6, OrdersReachAll
<1>9. \A i \in 1 .. n : sheet[i].type = ledger[b[i]].type /\ sheet[i].date = ledger[b[i]].date
  BY <1>1, <1>5, <1>7 DEF TradesOf
<1>10. sheet \in Seq({sheet[i] : i \in 1 .. n})  BY <1>1, <1>7
<1>11. Matches(b, sheet, ledger)  BY <1>1, <1>5, <1>6, <1>8, <1>7, <1>9 DEF Matches
<1> QED  BY <1>10, <1>11

\* What the import makes of a sheet has the rows of the sheet.
LEMMA SeedMatches ==
  ASSUME NEW S, NEW ledger \in Seq(S)
  PROVE  \E b : Matches(b, seedLedger(ledger), ledger)
<1> DEFINE n == Len(ledger)
           last == IF Matured(ledger) = {} THEN n ELSE CHOOSE i \in Matured(ledger) : TRUE
           b == [i \in 1 .. n |-> IF i < last THEN i ELSE IF i = n THEN last ELSE i + 1]
           seed == seedLedger(ledger)
<1>1. n \in Nat /\ DOMAIN ledger = 1 .. n  OBVIOUS
<1>2. n # 0 => last \in 1 .. n
  BY <1>1 DEF Matured
<1>3. seed = [i \in 1 .. n |-> [type |-> ledger[b[i]].type, date |-> ledger[b[i]].date, at |-> 0]]
  BY <1>1 DEF seedLedger
<1> HIDE DEF n, last, seed
<1>4. b \in [1 .. n -> 1 .. n]  BY <1>1, <1>2
<1>5. \A i, j \in 1 .. n : b[i] = b[j] => i = j  BY <1>1, <1>2
<1> HIDE DEF b
<1>6. \A k \in 1 .. n : \E i \in 1 .. n : b[i] = k
  BY <1>1, <1>4, <1>5, OrdersReachAll
<1>7. \A i \in 1 .. n : seed[i].type = ledger[b[i]].type /\ seed[i].date = ledger[b[i]].date
  BY <1>3
<1>8. DOMAIN seed = 1 .. n  BY <1>3
<1>9. Matches(b, seed, ledger)  BY <1>1, <1>4, <1>5, <1>6, <1>7, <1>8 DEF Matches
<1> QED  BY <1>9 DEF seed

\* It is a ledger whose rows were all written at once.
LEMMA SeedIsLedger ==
  ASSUME NEW S, NEW ledger \in Seq(S)
  PROVE  /\ \E T : seedLedger(ledger) \in Seq(T)
         /\ \A i \in DOMAIN seedLedger(ledger) : seedLedger(ledger)[i].at = 0
<1> DEFINE seed == seedLedger(ledger)
<1>1. PICK row :
        seed = [i \in 1 .. Len(ledger) |-> [type |-> row[i].type, date |-> row[i].date, at |-> 0]]
  <2> DEFINE last == IF Matured(ledger) = {} THEN Len(ledger) ELSE CHOOSE i \in Matured(ledger) : TRUE
             row == [i \in 1 .. Len(ledger) |->
                       ledger[IF i < last THEN i ELSE IF i = Len(ledger) THEN last ELSE i + 1]]
  <2>1. seed = [i \in 1 .. Len(ledger) |-> [type |-> row[i].type, date |-> row[i].date, at |-> 0]]
    BY DEF seedLedger
  <2> QED  BY <2>1
<1> HIDE DEF seed
<1>2. Len(ledger) \in Nat  OBVIOUS
<1>3. seed \in Seq({seed[i] : i \in 1 .. Len(ledger)})  BY <1>1, <1>2
<1>4. \A i \in DOMAIN seed : seed[i].at = 0  BY <1>1
<1> QED  BY <1>3, <1>4 DEF seed

\* Matching is transitive.
LEMMA MatchesCompose ==
  ASSUME NEW l, NEW k, NEW h, NEW a, NEW b, Matches(a, l, k), Matches(b, k, h)
  PROVE  \E c : Matches(c, l, h)
<1> DEFINE c == [i \in DOMAIN l |-> b[a[i]]]
<1>1. c \in [DOMAIN l -> DOMAIN h]  BY DEF Matches
<1>2. \A i, j \in DOMAIN l : c[i] = c[j] => i = j  BY DEF Matches
<1>3. ASSUME NEW j \in DOMAIN h PROVE \E i \in DOMAIN l : c[i] = j
  <2>1. PICK x \in DOMAIN k : b[x] = j  BY DEF Matches
  <2>2. PICK i \in DOMAIN l : a[i] = x  BY DEF Matches
  <2> QED  BY <2>1, <2>2
<1>4. \A i \in DOMAIN l : l[i].type = h[c[i]].type /\ l[i].date = h[c[i]].date  BY DEF Matches
<1> HIDE DEF c
<1>5. Matches(c, l, h)  BY <1>1, <1>2, <1>3, <1>4 DEF Matches
<1> QED  BY <1>5

\* A match of two ledgers is one of the rows of any kind.
LEMMA MatchingCount ==
  ASSUME NEW n \in Nat, NEW L, NEW K, NEW b,
         L \subseteq 1 .. n, K \subseteq 1 .. n,
         \A i \in L : b[i] \in K,
         \A i, j \in L : b[i] = b[j] => i = j,
         \A j \in K : \E i \in L : b[i] = j
  PROVE  Cardinality(L) = Cardinality(K)
<1> DEFINE f == [i \in L |-> b[i]]
<1>1. IsFiniteSet(L)
  <2>1. IsFiniteSet(1 .. n)  BY FS_Interval
  <2>2. L \in SUBSET (1 .. n)  OBVIOUS
  <2> QED  BY <2>1, <2>2, FS_Subset
<1>2. f \in Injection(L, K)  BY DEF Injection, IsInjective
<1>3. f \in Surjection(L, K)  BY DEF Surjection
<1>4. f \in Bijection(L, K)  BY <1>2, <1>3 DEF Bijection
<1>5. ExistsBijection(L, K)  BY <1>4 DEF ExistsBijection
<1> QED  BY <1>1, <1>5, FS_Bijection

\* Ledgers that match have as many maturities, of the same dates.
LEMMA MatchedMaturities ==
  ASSUME NEW S, NEW l, NEW k \in Seq(S), NEW b, Matches(b, l, k)
  PROVE  /\ Cardinality(Matured(l)) = Cardinality(Matured(k))
         /\ \A i \in Matured(l) : b[i] \in Matured(k) /\ k[b[i]].date = l[i].date
         /\ \A j \in Matured(k) : \E i \in Matured(l) : b[i] = j /\ l[i].date = k[j].date
<1>1. \A i \in Matured(l) : b[i] \in Matured(k) /\ k[b[i]].date = l[i].date
  BY DEF Matches, Matured
<1>2. ASSUME NEW j \in Matured(k) PROVE \E i \in Matured(l) : b[i] = j /\ l[i].date = k[j].date
  <2>1. PICK i \in DOMAIN l : b[i] = j  BY DEF Matches, Matured
  <2> QED  BY <2>1 DEF Matches, Matured
<1>3. Len(k) \in Nat /\ DOMAIN k = 1 .. Len(k)  OBVIOUS
<1>4. Matured(l) \subseteq 1 .. Len(k) /\ Matured(k) \subseteq 1 .. Len(k)
  BY <1>3 DEF Matches, Matured
<1>5. \A i, j \in Matured(l) : b[i] = b[j] => i = j  BY DEF Matches, Matured
<1>6. Cardinality(Matured(l)) = Cardinality(Matured(k))
  BY <1>1, <1>2, <1>3, <1>4, <1>5, MatchingCount
<1> QED  BY <1>1, <1>2, <1>6

\* They have the same trades.
LEMMA MatchedBags ==
  ASSUME NEW S, NEW l, NEW k \in Seq(S), NEW b, Matches(b, l, k)
  PROVE  ToBag(TradesOf(l)) = ToBag(TradesOf(k))
<1> DEFINE L == TradesOf(l)
           K == TradesOf(k)
<1>1. Len(k) \in Nat /\ DOMAIN k = 1 .. Len(k)  OBVIOUS
<1>2. DOMAIN L = 1 .. Len(k) /\ DOMAIN K = 1 .. Len(k)  BY <1>1 DEF TradesOf, Matches
<1>3. \A i \in 1 .. Len(k) : b[i] \in 1 .. Len(k) /\ L[i] = K[b[i]]  BY <1>1 DEF TradesOf, Matches
<1>4. \A j \in 1 .. Len(k) : \E i \in 1 .. Len(k) : b[i] = j  BY <1>1 DEF Matches
<1>5. \A i, j \in 1 .. Len(k) : b[i] = b[j] => i = j  BY <1>1 DEF Matches
<1> HIDE DEF L, K
<1>6. Range(L) = Range(K)  BY <1>2, <1>3, <1>4 DEF Range
<1>7. ASSUME NEW x
      PROVE  Cardinality({i \in DOMAIN L : L[i] = x}) = Cardinality({i \in DOMAIN K : K[i] = x})
  <2> DEFINE A == {i \in DOMAIN L : L[i] = x}
             B == {i \in DOMAIN K : K[i] = x}
  <2>1. A \subseteq 1 .. Len(k) /\ B \subseteq 1 .. Len(k)  BY <1>2
  <2>2. \A i \in A : b[i] \in B  BY <1>2, <1>3
  <2>3. \A i, j \in A : b[i] = b[j] => i = j  BY <1>2, <1>5
  <2>4. \A j \in B : \E i \in A : b[i] = j  BY <1>2, <1>3, <1>4
  <2> HIDE DEF A, B
  <2>5. Cardinality(A) = Cardinality(B)  BY <1>1, <2>1, <2>2, <2>3, <2>4, MatchingCount, ZenonT(60)
  <2> QED  BY <2>5 DEF A, B
<1>8. ToBag(L) = ToBag(K)  BY <1>6, <1>7 DEF ToBag
<1> QED  BY <1>8 DEF L, K

\* An order of a ledger is a permutation of its rows.
LEMMA OrdersAre ==
  ASSUME NEW ledger, NEW o
  PROVE  o \in Orders(ledger) <=>
           /\ o \in [DOMAIN ledger -> DOMAIN ledger]
           /\ \A i, j \in DOMAIN ledger : o[i] = o[j] => i = j
           /\ \A i, j \in DOMAIN ledger :
                i < j => \/ ledger[o[i]].date < ledger[o[j]].date
                         \/ /\ ledger[o[i]].date = ledger[o[j]].date
                            /\ ledger[o[i]].at <= ledger[o[j]].at
BY DEF Orders

\* An order of the ledger is an order of its copy, and where no two rows share
\* their day an order of the copy is one of the ledger.
LEMMA MatchedCosts ==
  ASSUME NEW S, NEW l, NEW k \in Seq(S), NEW b, Matches(b, l, k), \A i \in DOMAIN l : l[i].at = 0
  PROVE  /\ CostsOf(k) \subseteq CostsOf(l)
         /\ ~SameDay(k) => CostsOf(l) \subseteq CostsOf(k)
<1> DEFINE D == DOMAIN l
<1>1. D = DOMAIN k /\ b \in [D -> D]  BY DEF Matches
<1>2. \A i \in D : TradesOf(l)[i] = TradesOf(k)[b[i]]  BY <1>1 DEF TradesOf, Matches
<1>3. \A i, j \in D : b[i] = b[j] => i = j  BY DEF Matches
<1>4. \A j \in D : \E i \in D : b[i] = j  BY <1>1 DEF Matches
<1>5. \A i \in D : l[i].date = k[b[i]].date  BY DEF Matches
<1>6. \A i \in D : l[i].at = 0  OBVIOUS
<1> HIDE DEF D
<1>7. ASSUME NEW o \in Orders(k)
      PROVE  costBasisFromLedger([i \in D |-> TradesOf(k)[o[i]]]) \in CostsOf(l)
  <2> DEFINE c == [i \in D |-> CHOOSE x \in D : b[x] = o[i]]
  <2>1. /\ o \in [D -> D]
        /\ \A i, j \in D : o[i] = o[j] => i = j
        /\ \A i, j \in D : i < j => k[o[i]].date < k[o[j]].date \/ k[o[i]].date = k[o[j]].date
    BY <1>1, OrdersAre
  <2>2. \A i \in D : c[i] \in D /\ b[c[i]] = o[i]  BY <1>4, <2>1
  <2> HIDE DEF c
  <2>3. c \in [D -> D]
    <3>1. c = [i \in D |-> CHOOSE x \in D : b[x] = o[i]]  BY DEF c
    <3> QED  BY <2>2, <3>1
  <2>4. \A i, j \in D : c[i] = c[j] => i = j  BY <2>1, <2>2
  <2>5. ASSUME NEW i \in D, NEW j \in D, i < j
        PROVE  \/ l[c[i]].date < l[c[j]].date
               \/ l[c[i]].date = l[c[j]].date /\ l[c[i]].at <= l[c[j]].at
    <3>1. l[c[i]].date = k[o[i]].date /\ l[c[j]].date = k[o[j]].date  BY <1>5, <2>2
    <3>2. l[c[i]].at <= l[c[j]].at  BY <1>6, <2>2
    <3> QED  BY <2>1, <2>5, <3>1, <3>2
  <2>6. c \in Orders(l)
    <3>1. D = DOMAIN l  BY DEF D
    <3> QED  BY <2>3, <2>4, <2>5, <3>1, OrdersAre
  <2>7. [i \in D |-> TradesOf(l)[c[i]]] = [i \in D |-> TradesOf(k)[o[i]]]  BY <1>2, <2>2
  <2>8. costBasisFromLedger([i \in D |-> TradesOf(l)[c[i]]]) \in CostsOf(l)
    BY <2>6 DEF CostsOf, D
  <2> QED  BY <2>7, <2>8
<1>8. ASSUME ~SameDay(k), NEW c \in Orders(l)
      PROVE  costBasisFromLedger([i \in D |-> TradesOf(l)[c[i]]]) \in CostsOf(k)
  <2> DEFINE o == [i \in D |-> b[c[i]]]
  <2>1. /\ c \in [D -> D]
        /\ \A i, j \in D : c[i] = c[j] => i = j
        /\ \A i, j \in D : i < j => l[c[i]].date < l[c[j]].date \/ l[c[i]].date = l[c[j]].date
    BY OrdersAre DEF D
  <2>2. \A i \in D : o[i] \in D /\ o[i] = b[c[i]]  BY <1>1, <2>1
  <2>3. o \in [D -> D]  BY <1>1, <2>1
  <2> HIDE DEF o
  <2>4. \A i, j \in D : o[i] = o[j] => i = j  BY <1>3, <2>1, <2>2
  <2>5. ASSUME NEW i \in D, NEW j \in D, i < j
        PROVE  k[o[i]].date < k[o[j]].date
    <3>1. l[c[i]].date = k[o[i]].date /\ l[c[j]].date = k[o[j]].date  BY <1>5, <2>1, <2>2
    <3>2. i # j
      <4>1. D \subseteq Int  BY <1>1
      <4> QED  BY <2>5, <4>1
    <3>3. o[i] # o[j]  BY <2>4, <3>2
    <3>4. k[o[i]].date # k[o[j]].date  BY <1>1, <1>8, <2>2, <3>3 DEF SameDay
    <3> QED  BY <2>1, <2>5, <3>1, <3>4
  <2>6. o \in Orders(k)  BY <1>1, <2>3, <2>4, <2>5, OrdersAre
  <2>7. [i \in D |-> TradesOf(l)[c[i]]] = [i \in D |-> TradesOf(k)[o[i]]]  BY <1>2, <2>1, <2>2
  <2>8. costBasisFromLedger([i \in D |-> TradesOf(k)[o[i]]]) \in CostsOf(k)
    BY <1>1, <2>6 DEF CostsOf
  <2> QED  BY <2>7, <2>8
<1>9. CostsOf(k) \subseteq CostsOf(l)
  <2>1. CostsOf(k) = {costBasisFromLedger([i \in D |-> TradesOf(k)[o[i]]]) : o \in Orders(k)}
    BY <1>1 DEF CostsOf
  <2> QED  BY <1>7, <2>1
<1>10. ~SameDay(k) => CostsOf(l) \subseteq CostsOf(k)
  <2>1. CostsOf(l) = {costBasisFromLedger([i \in D |-> TradesOf(l)[c[i]]]) : c \in Orders(l)}
    BY DEF CostsOf, D
  <2> QED  BY <1>8, <2>1
<1> QED  BY <1>9, <1>10

----------------------------------------------------------------------------
(* The round trip *)

\* The name of a live tag is found to be that tag's.
LEMMA TagFound ==
  ASSUME NEW tags, TagsOK(tags), NEW t \in LiveTags(tags)
  PROVE  LookupTagIDByName(tags, tags[t].name) = t
BY DEF LookupTagIDByName, TagsOK

\* No tag's name is none.
LEMMA NoTagFound ==
  ASSUME NEW tags, TagsOK(tags)
  PROVE  LookupTagIDByName(tags, Nil) = Nil
<1>1. \A t \in LiveTags(tags) : tags[t].name # Nil
  BY NilAssumption DEF TagsOK, LiveTags, Tag
<1> QED  BY <1>1 DEF LookupTagIDByName

\* What the file of a position says.
LEMMA FileSays ==
  ASSUME NEW p, NEW tags, NEW sheet, PositionOK(p), TagsOK(tags),
         p.tag \in LiveTags(tags) \cup {Nil},
         sheet \in transactionsToExport(p.ledger)
  PROVE  LET f == BuildWorkbook(p, tags, sheet)
         IN  /\ WorkbookOK(f)
             /\ f.kind = p.kind /\ f.detail = p.col /\ f.entry = p.entry /\ f.ledger = sheet
             /\ f.ownership = (IF p.owner = Joint THEN "joint" ELSE "sole")
             /\ p.owner # Joint => f.email = p.owner
             /\ ~f.garbled
             /\ LookupTagIDByName(tags, f.tag) = p.tag
             /\ \A m \in Month :
                  /\ f.rows[m] = Nil <=> p.reading[m] = <<>>
                  /\ p.reading[m] # <<>> =>
                       /\ Head(p.reading[m]) \in Row
                       /\ f.rows[m] = snapshotRowCells(p.kind, Head(p.reading[m]))
<1> DEFINE f == BuildWorkbook(p, tags, sheet)
           detail == [c \in Columns(p.kind) |-> IF c \in Layers(p.kind).export THEN p.col[c] ELSE Nil]
           rows == [m \in Month |-> IF p.reading[m] = <<>> THEN Nil
                                    ELSE snapshotRowCells(p.kind, Head(p.reading[m]))]
<1>1. /\ f.kind = p.kind /\ f.entry = p.entry /\ f.ledger = sheet /\ ~f.garbled
      /\ f.ownership = (IF p.owner = Joint THEN "joint" ELSE "sole")
      /\ p.owner # Joint => f.email = p.owner
      /\ f.detail = detail /\ f.rows = rows
      /\ f.tag = (IF p.tag = Nil THEN Nil ELSE tags[p.tag].name)
  BY DEF BuildWorkbook
<1>2. f = [kind |-> f.kind, detail |-> f.detail, ownership |-> f.ownership, email |-> f.email,
           entry |-> f.entry, tag |-> f.tag, rows |-> f.rows, ledger |-> f.ledger,
           garbled |-> f.garbled]
  BY DEF BuildWorkbook
<1>3. p.kind \in Kind /\ ColumnsOK(p.kind, p.col) /\ p.reading \in [Month -> Seq(Row)] /\ p.entry # Nil
  BY DEF PositionOK
<1> HIDE DEF f
<1>4. detail = p.col
  <2>1. Columns(p.kind) \subseteq Layers(p.kind).export  BY <1>3, AllFit DEF LayersFit
  <2>2. p.col = [c \in Columns(p.kind) |-> p.col[c]]  BY <1>3 DEF ColumnsOK
  <2>3. detail = [c \in Columns(p.kind) |-> p.col[c]]  BY <2>1
  <2> QED  BY <2>2, <2>3
<1>5. ASSUME NEW m \in Month
      PROVE  /\ rows[m] = Nil <=> p.reading[m] = <<>>
             /\ p.reading[m] # <<>> =>
                  /\ Head(p.reading[m]) \in Row
                  /\ rows[m] = snapshotRowCells(p.kind, Head(p.reading[m]))
             /\ rows[m] \in Row \cup {Nil}
  <2>1. CASE p.reading[m] = <<>>  BY <2>1
  <2>2. CASE p.reading[m] # <<>>
    <3>1. p.reading[m] \in Seq(Row)  BY <1>3
    <3>2. Head(p.reading[m]) \in Row  BY <2>2, <3>1, Head1
    <3> QED  BY <2>2, <3>2, CellsComeBack
  <2> QED  BY <2>1, <2>2
<1>6. LookupTagIDByName(tags, f.tag) = p.tag
  BY <1>1, TagFound, NoTagFound
<1>7. rows \in [Month -> Row \cup {Nil}]  BY <1>5
<1>8. f.detail = [c \in Columns(f.kind) |-> f.detail[c]]
  BY <1>1, <1>3, <1>4 DEF ColumnsOK
<1>9. \E S : f.ledger \in Seq(S)
  BY <1>1, SheetMatches DEF PositionOK, LedgerOK
<1> HIDE DEF rows, detail
<1>10. f.ownership \in {"joint", "sole"}  BY <1>1
<1>11. WorkbookOK(f)  BY <1>1, <1>2, <1>3, <1>7, <1>8, <1>9, <1>10 DEF WorkbookOK
<1>12. f.detail = p.col  BY <1>1, <1>4
<1> QED  BY <1>1, <1>5, <1>6, <1>11, <1>12 DEF f

\* A sheet without texts of spaces is read as it is.
LEMMA DetailRead ==
  ASSUME NEW f, f.kind \in Kind, f.detail = [c \in Columns(f.kind) |-> f.detail[c]], ~Spaces(f)
  PROVE  /\ Columns(f.kind) \subseteq DOMAIN ParseDetail(f)
         /\ \A c \in Columns(f.kind) : ParseDetail(f)[c] = f.detail[c]
<1>1. Columns(f.kind) \subseteq Layers(f.kind).resolve  BY AllFit DEF LayersFit
<1>2. \A c \in Columns(f.kind) : f.detail[c] # Blank  BY DEF Spaces
<1> QED  BY <1>1, <1>2 DEF ParseDetail

\* A workbook nobody edited has no errors.
LEMMA FileIsValid ==
  ASSUME NEW p, NEW tags, NEW sheet, PositionOK(p), TagsOK(tags),
         p.tag \in LiveTags(tags) \cup {Nil},
         sheet \in transactionsToExport(p.ledger),
         ~Spaces(BuildWorkbook(p, tags, sheet)), Cardinality(Matured(p.ledger)) <= 1
  PROVE  Valid(BuildWorkbook(p, tags, sheet))
<1> DEFINE f == BuildWorkbook(p, tags, sheet)
           detail == ParseDetail(f)
           must == Layers(p.kind).form.must
<1>1. /\ WorkbookOK(f)
      /\ f.kind = p.kind /\ f.detail = p.col /\ f.ledger = sheet /\ ~f.garbled
      /\ f.ownership = (IF p.owner = Joint THEN "joint" ELSE "sole")
      /\ p.owner # Joint => f.email = p.owner
  BY FileSays
<1>2. p.kind \in Kind /\ ColumnsOK(p.kind, p.col) /\ LedgerOK(p.kind, p.ledger)
      /\ p.owner \in Member \cup {Joint}
  BY DEF PositionOK
<1>3. ~Spaces(f)  OBVIOUS
<1> HIDE DEF f
<1>4. /\ Columns(p.kind) \subseteq DOMAIN detail
      /\ \A c \in Columns(p.kind) : detail[c] = p.col[c]
  BY <1>1, <1>2, <1>3, DetailRead DEF WorkbookOK
<1> HIDE DEF detail
<1>5. CollectFieldErrors(f) = {}
  <2>1. CollectFieldErrors(f) = Missing(Required(p.kind, detail), detail) \ Layers(p.kind).drop
    BY <1>1 DEF CollectFieldErrors, detail
  <2>2. must \subseteq Columns(p.kind)  BY <1>2, AllFit DEF LayersFit
  <2>3. ASSUME NEW c \in must PROVE c \in DOMAIN detail /\ detail[c] # Nil
    BY <1>2, <1>4, <2>2 DEF ColumnsOK
  <2>4. Missing(Required(p.kind, detail), detail) \subseteq Layers(p.kind).drop
    BY <2>3, BondLayers DEF Missing, Required
  <2> QED  BY <2>1, <2>4
<1>6. OwnerErrors(f) = {}  BY <1>1, <1>2 DEF OwnerErrors
<1>7. validateLedger(f)
  <2>1. PICK S : p.ledger \in Seq(S)  BY <1>2 DEF LedgerOK
  <2>2. PICK b : Matches(b, sheet, p.ledger)  BY <2>1, SheetMatches
  <2>3. \A i \in DOMAIN sheet : sheet[i].type \in allowedTransactions(p.kind)
    BY <1>2, <2>2 DEF Matches, LedgerOK
  <2>4. Cardinality(Matured(sheet)) <= 1  BY <2>1, <2>2, MatchedMaturities
  <2> QED  BY <1>1, <2>3, <2>4 DEF validateLedger
<1>8. Valid(f)  BY <1>5, <1>6, <1>7 DEF Valid
<1> QED  BY <1>8 DEF f

\* Its transaction commits when the position's history is inside its term.
LEMMA FileCommits ==
  ASSUME NEW p, NEW tags, NEW sheet, PositionOK(p), TagsOK(tags),
         p.tag \in LiveTags(tags) \cup {Nil},
         sheet \in transactionsToExport(p.ledger),
         ~Spaces(BuildWorkbook(p, tags, sheet))
  PROVE  Commits(BuildWorkbook(p, tags, sheet))
           <=> InTerm(termBounds(p.kind, p.col), p.reading, p.ledger)
<1> DEFINE f == BuildWorkbook(p, tags, sheet)
           col == ParseDetail(f)
           bounds == termBounds(p.kind, p.col)
<1>1. /\ WorkbookOK(f)
      /\ f.kind = p.kind /\ f.detail = p.col /\ f.ledger = sheet
      /\ \A m \in Month : f.rows[m] = Nil <=> p.reading[m] = <<>>
  BY FileSays
<1>2. p.kind \in Kind /\ ColumnsOK(p.kind, p.col)  BY DEF PositionOK
<1>3. ~Spaces(f)  OBVIOUS
<1> HIDE DEF f
<1>4. \A c \in Columns(p.kind) : col[c] = p.col[c]
  BY <1>1, <1>2, <1>3, DetailRead DEF WorkbookOK
<1> HIDE DEF col
<1>5. p.kind = "time_deposit" =>
        col["placement_date"] = p.col["placement_date"] /\ col["maturity_date"] = p.col["maturity_date"]
  <2>1. Layers(p.kind).form.must \subseteq Columns(p.kind)  BY <1>2, AllFit DEF LayersFit
  <2> QED  BY <1>4, <2>1, DepositsHaveTerms
<1>6. termBounds(p.kind, col) = bounds  BY <1>5 DEF termBounds
<1>7. ValidTerm(p.kind, col)  BY <1>2, <1>5 DEF ColumnsOK, ValidTerm
<1>8. PICK S : p.ledger \in Seq(S)  BY DEF PositionOK, LedgerOK
<1>9. PICK b : Matches(b, sheet, p.ledger)  BY <1>8, SheetMatches
<1> HIDE DEF bounds
<1>10. (\A i \in DOMAIN sheet : sheet[i].date \in bounds)
         <=> (\A i \in DOMAIN p.ledger : p.ledger[i].date \in bounds)
  <2>1. ASSUME \A i \in DOMAIN sheet : sheet[i].date \in bounds, NEW j \in DOMAIN p.ledger
        PROVE  p.ledger[j].date \in bounds
    <3>1. PICK i \in DOMAIN sheet : b[i] = j  BY <1>9 DEF Matches
    <3> QED  BY <1>9, <2>1, <3>1 DEF Matches
  <2>2. ASSUME \A i \in DOMAIN p.ledger : p.ledger[i].date \in bounds, NEW i \in DOMAIN sheet
        PROVE  sheet[i].date \in bounds
    BY <1>9, <2>2 DEF Matches
  <2> QED  BY <2>1, <2>2
<1>11. Commits(f) <=> /\ ValidTerm(p.kind, col)
                      /\ \A m \in Month : f.rows[m] # Nil => m \in bounds
                      /\ \A i \in DOMAIN sheet : sheet[i].date \in bounds
  BY <1>1, <1>6 DEF Commits, col
<1>12. Commits(f) <=> InTerm(bounds, p.reading, p.ledger)
  BY <1>1, <1>7, <1>10, <1>11 DEF InTerm
<1> QED  BY <1>12 DEF f, bounds

\* The ledger of the copy is the position's, and a maturity of either is dated as
\* one of the other.
LEMMA CopiedLedger ==
  ASSUME NEW S, NEW ledger \in Seq(S), NEW sheet \in transactionsToExport(ledger)
  PROVE  /\ \E b : Matches(b, seedLedger(sheet), ledger)
         /\ \E b : Matches(b, sheet, ledger)
         /\ \A i \in DOMAIN seedLedger(sheet) : seedLedger(sheet)[i].at = 0
<1>1. PICK T : sheet \in Seq(T)  BY SheetMatches
<1>2. PICK a : Matches(a, sheet, ledger)  BY SheetMatches
<1>3. PICK b : Matches(b, seedLedger(sheet), sheet)  BY <1>1, SeedMatches
<1>4. \E c : Matches(c, seedLedger(sheet), ledger)  BY <1>2, <1>3, MatchesCompose
<1> QED  BY <1>1, <1>2, <1>4, SeedIsLedger

\* One row at most makes its date.
LEMMA OnlyOne ==
  ASSUME NEW S, NEW ledger \in Seq(S), Cardinality(Matured(ledger)) <= 1,
         NEW i \in Matured(ledger), NEW j \in Matured(ledger)
  PROVE  i = j
<1>1. IsFiniteSet(1 .. Len(ledger))  BY FS_Interval
<1>2. Matured(ledger) \in SUBSET (1 .. Len(ledger))  BY DEF Matured
<1>3. IsFiniteSet(Matured(ledger))  BY <1>1, <1>2, FS_Subset
<1>4. {i, j} \in SUBSET Matured(ledger)  OBVIOUS
<1>5. Cardinality({i, j}) <= Cardinality(Matured(ledger))  BY <1>3, <1>4, FS_Subset
<1>6. Cardinality({i}) = 1 /\ IsFiniteSet({i})  BY FS_Singleton
<1>7. i # j => Cardinality({i, j}) = 2
  <2> DEFINE A == {i}
  <2>1. IsFiniteSet(A) /\ Cardinality(A) = 1  BY <1>6
  <2>2. i # j => j \notin A  OBVIOUS
  <2>3. A \cup {j} = {i, j}  OBVIOUS
  <2> HIDE DEF A
  <2>4. i # j => Cardinality(A \cup {j}) = Cardinality(A) + 1  BY <2>1, <2>2, FS_AddElement
  <2>5. Cardinality(A \cup {j}) = Cardinality({i, j})  BY <2>3, Zenon
  <2> QED  BY <2>1, <2>4, <2>5
<1>8. Cardinality(Matured(ledger)) \in Nat  BY <1>3, FS_CardinalityType
<1> QED  BY <1>5, <1>7, <1>8

\* The copy says what the position says.
LEMMA FileIsFaithful ==
  ASSUME NEW p, NEW tags, NEW sheet, NEW t, PositionOK(p), ~p.deleted, TagsOK(tags),
         p.tag \in LiveTags(tags) \cup {Nil},
         sheet \in transactionsToExport(p.ledger),
         ~Spaces(BuildWorkbook(p, tags, sheet)), Cardinality(Matured(p.ledger)) <= 1
  PROVE  Faithful(createInvestmentWithHistory(BuildWorkbook(p, tags, sheet), t), p)
<1> DEFINE f == BuildWorkbook(p, tags, sheet)
           copy == createInvestmentWithHistory(f, t)
           matured == Matured(sheet)
<1>1. /\ WorkbookOK(f)
      /\ f.kind = p.kind /\ f.detail = p.col /\ f.entry = p.entry /\ f.ledger = sheet
      /\ f.ownership = (IF p.owner = Joint THEN "joint" ELSE "sole")
      /\ p.owner # Joint => f.email = p.owner
      /\ \A m \in Month :
           /\ f.rows[m] = Nil <=> p.reading[m] = <<>>
           /\ p.reading[m] # <<>> =>
                /\ Head(p.reading[m]) \in Row
                /\ f.rows[m] = snapshotRowCells(p.kind, Head(p.reading[m]))
  BY FileSays
<1>2. /\ p.kind \in Kind /\ ColumnsOK(p.kind, p.col) /\ LedgerOK(p.kind, p.ledger) /\ EndOK(p)
      /\ p.owner \in Member \cup {Joint} /\ p.entry # Nil
  BY DEF PositionOK
<1>3. ~Spaces(f)  OBVIOUS
<1> HIDE DEF f
<1>4. /\ copy.col = Inserted(p.kind, Layers(p.kind).seed, ParseDetail(f))
      /\ copy.owner = (IF f.ownership = "joint" THEN Joint ELSE f.email)
      /\ copy.entry = entryTypeOr(f.entry, "acquired")
      /\ copy.status = (IF matured = {} THEN "active" ELSE "matured")
      /\ copy.ended = (IF matured = {} THEN Nil ELSE sheet[CHOOSE i \in matured : TRUE].date)
      /\ copy.reading = seedSnapshots(f)
      /\ copy.ledger = seedLedger(sheet)
  BY <1>1 DEF createInvestmentWithHistory
<1> HIDE DEF copy
<1>5. PICK S : p.ledger \in Seq(S)  BY <1>2 DEF LedgerOK
<1>6. PICK b : Matches(b, sheet, p.ledger)  BY <1>5, CopiedLedger
<1>7. PICK c : Matches(c, seedLedger(sheet), p.ledger)  BY <1>5, CopiedLedger
<1>8. \A i \in DOMAIN seedLedger(sheet) : seedLedger(sheet)[i].at = 0  BY <1>5, CopiedLedger
<1>9. /\ \A i \in matured : b[i] \in Matured(p.ledger) /\ p.ledger[b[i]].date = sheet[i].date
      /\ \A j \in Matured(p.ledger) : \E i \in matured : b[i] = j /\ sheet[i].date = p.ledger[j].date
  BY <1>5, <1>6, MatchedMaturities
<1>10. copy.col = p.col
  <2> DEFINE detail == ParseDetail(f)
  <2>1. /\ Columns(p.kind) \subseteq DOMAIN detail
        /\ \A x \in Columns(p.kind) : detail[x] = p.col[x]
    BY <1>1, <1>2, <1>3, DetailRead DEF WorkbookOK
  <2>2. Columns(p.kind) \subseteq Layers(p.kind).seed  BY <1>2, AllFit DEF LayersFit
  <2> HIDE DEF detail
  <2>3. ASSUME NEW x \in Columns(p.kind)
        PROVE  Inserted(p.kind, Layers(p.kind).seed, detail)[x] = p.col[x]
    <3>1. x = "coupon_disposition" => p.col[x] # Nil
      BY <1>2, OnlyBondsPayCoupons DEF ColumnsOK
    <3> QED  BY <2>1, <2>2, <3>1, InsertedAt
  <2>4. DEFINE col == Inserted(p.kind, Layers(p.kind).seed, detail)
  <2>5. col = [x \in Columns(p.kind) |-> col[x]]  BY DEF Inserted
  <2>6. p.col = [x \in Columns(p.kind) |-> p.col[x]]  BY <1>2 DEF ColumnsOK
  <2>7. [x \in Columns(p.kind) |-> col[x]] = [x \in Columns(p.kind) |-> p.col[x]]  BY <2>3
  <2> QED  BY <1>4, <2>5, <2>6, <2>7 DEF detail
<1>11. copy.owner = p.owner /\ copy.entry = p.entry
  BY <1>1, <1>2, <1>4 DEF entryTypeOr
<1>12. ASSUME NEW m \in Month
       PROVE  copy.reading[m] =
                IF \E i \in Matured(p.ledger) : p.ledger[i].date = m THEN <<ZeroReading(p.kind)>>
                ELSE IF p.reading[m] = <<>> THEN <<>>
                ELSE LET r == Head(p.reading[m])
                     IN  <<IF shapeForSubtype(p.kind) = "quantity"
                           THEN [r EXCEPT !.amount = r.part] ELSE r>>
  <2>1. (\E i \in Matured(p.ledger) : p.ledger[i].date = m)
          <=> (\E i \in matured : sheet[i].date = m)
    BY <1>9
  <2>2. seedSnapshots(f)[m] =
          IF \E i \in matured : sheet[i].date = m THEN <<ZeroReading(p.kind)>>
          ELSE IF f.rows[m] = Nil THEN <<>> ELSE <<parseValues(p.kind, f.rows[m])>>
    BY <1>1 DEF seedSnapshots
  <2>3. CASE \E i \in matured : sheet[i].date = m  BY <1>4, <2>1, <2>2, <2>3
  <2>4. CASE ~(\E i \in matured : sheet[i].date = m) /\ p.reading[m] = <<>>
    BY <1>1, <1>4, <2>1, <2>2, <2>4
  <2>5. CASE ~(\E i \in matured : sheet[i].date = m) /\ p.reading[m] # <<>>
    <3> DEFINE r == Head(p.reading[m])
    <3>1. r \in Row /\ f.rows[m] = snapshotRowCells(p.kind, r) /\ f.rows[m] # Nil
      BY <1>1, <2>5
    <3>2. parseValues(p.kind, snapshotRowCells(p.kind, r)) =
            IF shapeForSubtype(p.kind) = "quantity" THEN [r EXCEPT !.amount = r.part] ELSE r
      BY <3>1, CellsComeBack
    <3> HIDE DEF r
    <3>3. copy.reading[m] = <<parseValues(p.kind, snapshotRowCells(p.kind, r))>>
      BY <1>4, <2>2, <2>5, <3>1
    <3> QED  BY <2>1, <2>5, <3>2, <3>3 DEF r
  <2> QED  BY <2>3, <2>4, <2>5
<1>13. EndedAsLedgerSays(p) => copy.status = p.status /\ copy.ended = p.ended
  <2>1. SUFFICES ASSUME p.status # "terminated", p.status = "matured" <=> Matured(p.ledger) # {}
                 PROVE  copy.status = p.status /\ copy.ended = p.ended
    BY DEF EndedAsLedgerSays
  <2>2. matured = {} <=> Matured(p.ledger) = {}  BY <1>9
  <2>3. CASE matured = {}
    BY <1>2, <1>4, <2>1, <2>2, <2>3 DEF EndOK
  <2>4. CASE matured # {}
    <3>1. PICK j \in Matured(p.ledger) : p.ledger[j].date = p.ended
      BY <1>2, <2>1, <2>2, <2>4 DEF EndOK
    <3> DEFINE i == CHOOSE x \in matured : TRUE
    <3>2. i \in matured  BY <2>4
    <3> HIDE DEF i
    <3>3. b[i] \in Matured(p.ledger) /\ p.ledger[b[i]].date = sheet[i].date  BY <1>9, <3>2
    <3>4. b[i] = j  BY <1>5, <3>3, OnlyOne
    <3> QED  BY <1>4, <2>1, <2>2, <2>4, <3>1, <3>3, <3>4 DEF i
  <2> QED  BY <2>3, <2>4
<1>14. ToBag(TradesOf(copy.ledger)) = ToBag(TradesOf(p.ledger))
  BY <1>4, <1>5, <1>7, MatchedBags
<1>15. /\ CostsOf(p.ledger) \subseteq CostsOf(copy.ledger)
       /\ ~SameDay(p.ledger) => CostsOf(copy.ledger) = CostsOf(p.ledger)
  <2>1. /\ CostsOf(p.ledger) \subseteq CostsOf(seedLedger(sheet))
        /\ ~SameDay(p.ledger) => CostsOf(seedLedger(sheet)) \subseteq CostsOf(p.ledger)
    BY <1>5, <1>7, <1>8, MatchedCosts
  <2> QED  BY <1>4, <2>1
<1>16. Faithful(copy, p)  BY <1>10, <1>11, <1>12, <1>13, <1>14, <1>15 DEF Faithful
<1> QED  BY <1>16 DEF copy, f

\* A file made of a position that could be exported goes the whole way.
LEMMA RoundTrip ==
  ASSUME file # Nil, ExportOK(file, origin)
  PROVE  RoundTrips
<1> DEFINE p == origin.position
           tags == origin.tags
           t == LookupTagIDByName(tags, file.tag)
           copy == createInvestmentWithHistory(file, t)
<1>1. /\ PositionOK(p) /\ ~p.deleted /\ TagsOK(tags) /\ p.tag \in LiveTags(tags) \cup {Nil}
      /\ \E sheet \in transactionsToExport(p.ledger) : file = BuildWorkbook(p, tags, sheet)
  BY DEF ExportOK
<1>2. PICK sheet \in transactionsToExport(p.ledger) : file = BuildWorkbook(p, tags, sheet)
  BY <1>1
<1>3. SUFFICES ASSUME ~Spaces(file), ~(Cardinality(Matured(p.ledger)) > 1)
               PROVE  /\ Valid(file)
                      /\ Commits(file) <=> InTerm(termBounds(p.kind, p.col), p.reading, p.ledger)
                      /\ Faithful(copy, p)
                      /\ copy.tag = p.tag
  BY DEF RoundTrips
<1>4. Cardinality(Matured(p.ledger)) <= 1
  <2>1. PICK S : p.ledger \in Seq(S)  BY <1>1 DEF PositionOK, LedgerOK
  <2>2. IsFiniteSet(1 .. Len(p.ledger))  BY <2>1, FS_Interval
  <2>3. Matured(p.ledger) \in SUBSET (1 .. Len(p.ledger))  BY <2>1 DEF Matured
  <2>4. Cardinality(Matured(p.ledger)) \in Nat  BY <2>2, <2>3, FS_Subset, FS_CardinalityType
  <2> QED  BY <1>3, <2>4
<1> HIDE DEF p, tags, t
<1>5. Valid(file)  BY <1>1, <1>2, <1>3, <1>4, FileIsValid
<1>6. Commits(file) <=> InTerm(termBounds(p.kind, p.col), p.reading, p.ledger)
  BY <1>1, <1>2, <1>3, FileCommits
<1>7. Faithful(copy, p)  BY <1>1, <1>2, <1>3, <1>4, FileIsFaithful
<1>8. t = p.tag  BY <1>1, <1>2, FileSays DEF t
<1>9. copy.tag = t  BY DEF createInvestmentWithHistory
<1> QED  BY <1>5, <1>6, <1>7, <1>8, <1>9

----------------------------------------------------------------------------
(* The invariant *)

\* Positions with other fields.
With(q, col, owner, entry, t, status, ended, reading, ledger) ==
  [kind |-> q.kind, deleted |-> q.deleted, col |-> col, owner |-> owner, entry |-> entry,
   tag |-> t, status |-> status, ended |-> ended, reading |-> reading, ledger |-> ledger]

\* The fields of a position after each kind of write.
LEMMA FormSaved ==
  ASSUME NEW q, IsPosition(q), NEW x, NEW y, NEW z
  PROVE  [q EXCEPT !.col = x, !.owner = y, !.entry = z] =
           With(q, x, y, z, q.tag, q.status, q.ended, q.reading, q.ledger)
<1>1. PICK k, d, c, o, e, t, s, n, r, l :
        q = [kind |-> k, deleted |-> d, col |-> c, owner |-> o, entry |-> e, tag |-> t,
             status |-> s, ended |-> n, reading |-> r, ledger |-> l]
  BY DEF IsPosition
<1> DEFINE q1 == [q EXCEPT !.col = x]
           q2 == [q1 EXCEPT !.owner = y]
           q3 == [q2 EXCEPT !.entry = z]
<1>2. [q EXCEPT !.col = x, !.owner = y, !.entry = z] = q3  OBVIOUS
<1>3. q1 = [kind |-> k, deleted |-> d, col |-> x, owner |-> o, entry |-> e,
            tag |-> t, status |-> s, ended |-> n, reading |-> r, ledger |-> l]
  BY <1>1
<1> HIDE DEF q1
<1>4. q2 = [kind |-> k, deleted |-> d, col |-> x, owner |-> y, entry |-> e,
            tag |-> t, status |-> s, ended |-> n, reading |-> r, ledger |-> l]
  BY <1>3
<1> HIDE DEF q2
<1>5. q3 = [kind |-> k, deleted |-> d, col |-> x, owner |-> y, entry |-> z,
            tag |-> t, status |-> s, ended |-> n, reading |-> r, ledger |-> l]
  BY <1>4
<1> HIDE DEF q3
<1> QED  BY <1>1, <1>2, <1>5 DEF With

LEMMA TagPut ==
  ASSUME NEW q, IsPosition(q), NEW x
  PROVE  [q EXCEPT !.tag = x] =
           With(q, q.col, q.owner, q.entry, x, q.status, q.ended, q.reading, q.ledger)
<1>1. PICK k, d, c, o, e, t, s, n, r, l :
        q = [kind |-> k, deleted |-> d, col |-> c, owner |-> o, entry |-> e, tag |-> t,
             status |-> s, ended |-> n, reading |-> r, ledger |-> l]
  BY DEF IsPosition
<1> QED  BY <1>1 DEF With

LEMMA ReadingPut ==
  ASSUME NEW q, IsPosition(q), NEW x
  PROVE  [q EXCEPT !.reading = x] =
           With(q, q.col, q.owner, q.entry, q.tag, q.status, q.ended, x, q.ledger)
<1>1. PICK k, d, c, o, e, t, s, n, r, l :
        q = [kind |-> k, deleted |-> d, col |-> c, owner |-> o, entry |-> e, tag |-> t,
             status |-> s, ended |-> n, reading |-> r, ledger |-> l]
  BY DEF IsPosition
<1> QED  BY <1>1 DEF With

LEMMA LedgerPut ==
  ASSUME NEW q, IsPosition(q), NEW x
  PROVE  [q EXCEPT !.ledger = x] =
           With(q, q.col, q.owner, q.entry, q.tag, q.status, q.ended, q.reading, x)
<1>1. PICK k, d, c, o, e, t, s, n, r, l :
        q = [kind |-> k, deleted |-> d, col |-> c, owner |-> o, entry |-> e, tag |-> t,
             status |-> s, ended |-> n, reading |-> r, ledger |-> l]
  BY DEF IsPosition
<1> QED  BY <1>1 DEF With

LEMMA EndPut ==
  ASSUME NEW q, IsPosition(q), NEW x, NEW y, NEW z
  PROVE  [q EXCEPT !.status = x, !.ended = y, !.reading = z] =
           With(q, q.col, q.owner, q.entry, q.tag, x, y, z, q.ledger)
<1>1. PICK k, d, c, o, e, t, s, n, r, l :
        q = [kind |-> k, deleted |-> d, col |-> c, owner |-> o, entry |-> e, tag |-> t,
             status |-> s, ended |-> n, reading |-> r, ledger |-> l]
  BY DEF IsPosition
<1> DEFINE q1 == [q EXCEPT !.status = x]
           q2 == [q1 EXCEPT !.ended = y]
           q3 == [q2 EXCEPT !.reading = z]
<1>2. [q EXCEPT !.status = x, !.ended = y, !.reading = z] = q3  OBVIOUS
<1>3. q1 = [kind |-> k, deleted |-> d, col |-> c, owner |-> o, entry |-> e,
            tag |-> t, status |-> x, ended |-> n, reading |-> r, ledger |-> l]
  BY <1>1
<1> HIDE DEF q1
<1>4. q2 = [kind |-> k, deleted |-> d, col |-> c, owner |-> o, entry |-> e,
            tag |-> t, status |-> x, ended |-> y, reading |-> r, ledger |-> l]
  BY <1>3
<1> HIDE DEF q2
<1>5. q3 = [kind |-> k, deleted |-> d, col |-> c, owner |-> o, entry |-> e,
            tag |-> t, status |-> x, ended |-> y, reading |-> z, ledger |-> l]
  BY <1>4
<1> HIDE DEF q3
<1> QED  BY <1>1, <1>2, <1>5 DEF With

LEMMA DeletionPut ==
  ASSUME NEW q, IsPosition(q), NEW v, NEW x, NEW y
  PROVE  [q EXCEPT !.deleted = v, !.reading = x, !.ledger = y] =
           [kind |-> q.kind, deleted |-> v, col |-> q.col, owner |-> q.owner, entry |-> q.entry,
            tag |-> q.tag, status |-> q.status, ended |-> q.ended, reading |-> x, ledger |-> y]
<1>1. PICK k, d, c, o, e, t, s, n, r, l :
        q = [kind |-> k, deleted |-> d, col |-> c, owner |-> o, entry |-> e, tag |-> t,
             status |-> s, ended |-> n, reading |-> r, ledger |-> l]
  BY DEF IsPosition
<1> DEFINE q1 == [q EXCEPT !.deleted = v]
           q2 == [q1 EXCEPT !.reading = x]
           q3 == [q2 EXCEPT !.ledger = y]
<1>2. [q EXCEPT !.deleted = v, !.reading = x, !.ledger = y] = q3  OBVIOUS
<1>3. q1 = [kind |-> k, deleted |-> v, col |-> c, owner |-> o, entry |-> e,
            tag |-> t, status |-> s, ended |-> n, reading |-> r, ledger |-> l]
  BY <1>1
<1> HIDE DEF q1
<1>4. q2 = [kind |-> k, deleted |-> v, col |-> c, owner |-> o, entry |-> e,
            tag |-> t, status |-> s, ended |-> n, reading |-> x, ledger |-> l]
  BY <1>3
<1> HIDE DEF q2
<1>5. q3 = [kind |-> k, deleted |-> v, col |-> c, owner |-> o, entry |-> e,
            tag |-> t, status |-> s, ended |-> n, reading |-> x, ledger |-> y]
  BY <1>4
<1> HIDE DEF q3
<1> QED  BY <1>1, <1>2, <1>5 DEF With

\* The fields of such a position.
LEMMA WithFields ==
  ASSUME NEW q, NEW col, NEW owner, NEW entry, NEW t, NEW status, NEW ended, NEW reading, NEW ledger
  PROVE  LET w == With(q, col, owner, entry, t, status, ended, reading, ledger)
         IN  /\ IsPosition(w)
             /\ w.kind = q.kind /\ w.deleted = q.deleted /\ w.col = col /\ w.owner = owner
             /\ w.entry = entry /\ w.tag = t /\ w.status = status /\ w.ended = ended
             /\ w.reading = reading /\ w.ledger = ledger
BY DEF With, IsPosition

\* A position whose month of readings is replaced.
LEMMA Reread ==
  ASSUME NEW q, PositionOK(q), NEW m \in Month, NEW rows \in Seq(Row)
  PROVE  /\ [q.reading EXCEPT ![m] = rows] \in [Month -> Seq(Row)]
         /\ PositionOK([q EXCEPT !.reading = [q.reading EXCEPT ![m] = rows]])
<1> DEFINE reading == [q.reading EXCEPT ![m] = rows]
           w == With(q, q.col, q.owner, q.entry, q.tag, q.status, q.ended, reading, q.ledger)
<1>1. reading \in [Month -> Seq(Row)]  BY DEF PositionOK
<1> HIDE DEF reading
<1>2. /\ IsPosition(w)
      /\ w.kind = q.kind /\ w.deleted = q.deleted /\ w.col = q.col /\ w.owner = q.owner
      /\ w.entry = q.entry /\ w.tag = q.tag /\ w.status = q.status /\ w.ended = q.ended
      /\ w.reading = reading /\ w.ledger = q.ledger
  BY WithFields
<1>3. [q EXCEPT !.reading = reading] = w  BY ReadingPut DEF PositionOK
<1> HIDE DEF w
<1>4. PositionOK(w)  BY <1>1, <1>2 DEF PositionOK, EndOK
<1> QED  BY <1>1, <1>3, <1>4 DEF reading

\* A position given another tag.
LEMMA Retagged ==
  ASSUME NEW q, PositionOK(q), NEW t \in TagId \cup {Nil}
  PROVE  PositionOK([q EXCEPT !.tag = t]) /\ [q EXCEPT !.tag = t].tag = t
<1> DEFINE w == With(q, q.col, q.owner, q.entry, t, q.status, q.ended, q.reading, q.ledger)
<1>1. /\ IsPosition(w)
      /\ w.kind = q.kind /\ w.deleted = q.deleted /\ w.col = q.col /\ w.owner = q.owner
      /\ w.entry = q.entry /\ w.tag = t /\ w.status = q.status /\ w.ended = q.ended
      /\ w.reading = q.reading /\ w.ledger = q.ledger
  BY WithFields
<1>2. [q EXCEPT !.tag = t] = w  BY TagPut DEF PositionOK
<1> HIDE DEF w
<1>3. PositionOK(w)  BY <1>1 DEF PositionOK, EndOK
<1> QED  BY <1>1, <1>2, <1>3

\* A write that leaves a position in order keeps the invariant.
LEMMA Written ==
  ASSUME Inv, NEW p \in PosId, NEW after, PositionOK(after), Write(p, after)
  PROVE  Inv'
<1>1. /\ position' = [position EXCEPT ![p] = after]
      /\ tag' = tag /\ file' = file /\ origin' = origin /\ job' = job
  BY DEF Write
<1>2. position' = [x \in PosId |-> position'[x]]  BY <1>1 DEF Inv
<1>3. PositionsOK'  BY <1>1 DEF Inv, PositionsOK
<1>4. JobOK'  BY <1>1 DEF Inv, JobOK
<1>5. TagsOK(tag)' /\ (file # Nil => ExportOK(file, origin))'  BY <1>1 DEF Inv
<1> QED  BY <1>2, <1>3, <1>4, <1>5 DEF Inv

----------------------------------------------------------------------------
(* Positions *)

\* The ledger a position is created with.
LEMMA PlacementIsLedger ==
  ASSUME NEW request
  PROVE  LedgerOK(request.kind, PlacementBuy(request))
<1>1. CASE request.kind = "bond" /\ request.col["bond_type"] = Primary
  <2> DEFINE row == [type |-> "buy", date |-> request.col["placement_date"], at |-> writes + 1]
  <2>1. PlacementBuy(request) = <<row>>  BY <1>1 DEF PlacementBuy
  <2>2. row.type = "buy"  OBVIOUS
  <2>3. allowedTransactions("bond") = {"buy", "sell", "coupon", "fee", "maturity"}
    BY Zenon DEF allowedTransactions
  <2> HIDE DEF row
  <2>4. <<row>> \in Seq({row}) /\ DOMAIN <<row>> = {1} /\ <<row>>[1] = row  OBVIOUS
  <2> QED  BY <1>1, <2>1, <2>2, <2>3, <2>4 DEF LedgerOK
<1>2. CASE ~(request.kind = "bond" /\ request.col["bond_type"] = Primary)
  <2>1. PlacementBuy(request) = <<>>  BY <1>2 DEF PlacementBuy
  <2>2. <<>> \in Seq({}) /\ DOMAIN <<>> = {}  OBVIOUS
  <2> QED  BY <2>1, <2>2 DEF LedgerOK
<1> QED  BY <1>1, <1>2

LEMMA CreatePositionInv ==
  ASSUME Inv, NEW p \in PosId, NEW request \in Request, CreatePosition(p, request)
  PROVE  Inv'
<1> DEFINE kind == request.kind
           col == Inserted(kind, Layers(kind).insert, request.col)
           reading == [m \in Month |-> <<>>]
           after == [kind |-> kind, deleted |-> FALSE, col |-> col, owner |-> request.owner,
                     entry |-> entryTypeOr(request.entry, "acquired"), tag |-> Nil,
                     status |-> "active", ended |-> Nil, reading |-> reading,
                     ledger |-> PlacementBuy(request)]
<1>1. kind \in Kind /\ request.owner \in Member \cup {Joint}
      /\ DOMAIN request.col = Layers(kind).form.must \cup Layers(kind).form.may
  BY FormAssumption
<1>2. Write(p, after)  BY DEF CreatePosition
<1>3. /\ IsPosition(after)
      /\ after.kind = kind /\ after.deleted = FALSE /\ after.col = col
      /\ after.owner = request.owner /\ after.entry = entryTypeOr(request.entry, "acquired")
      /\ after.tag = Nil /\ after.status = "active" /\ after.ended = Nil
      /\ after.reading = reading /\ after.ledger = PlacementBuy(request)
  BY DEF IsPosition
<1>4. ColumnsOK(kind, col)
  <2>1. Columns(kind) \subseteq Layers(kind).insert  BY <1>1, AllFit DEF LayersFit
  <2>2. \A c \in Layers(kind).form.must : c \in DOMAIN request.col /\ request.col[c] # Nil
    BY DEF CreatePosition, Missing, Required
  <2>3. kind = "bond" => "coupon_disposition" \in DOMAIN request.col  BY <1>1, BondLayers
  <2>4. ValidTerm(kind, request.col)  BY DEF CreatePosition
  <2> QED  BY <1>1, <2>1, <2>2, <2>3, <2>4, NewColumns
<1>5. reading \in [Month -> Seq(Row)]
  <2>1. <<>> \in Seq(Row)  OBVIOUS
  <2> QED  BY <2>1
<1>6. entryTypeOr(request.entry, "acquired") # Nil  BY NilAssumption DEF entryTypeOr
<1>7. LedgerOK(kind, PlacementBuy(request))  BY PlacementIsLedger
<1> HIDE DEF after, reading, col, kind
<1>8. PositionOK(after)  BY <1>1, <1>3, <1>4, <1>5, <1>6, <1>7 DEF PositionOK, EndOK
<1> QED  BY <1>2, <1>8, Written

LEMMA UpdatePositionInv ==
  ASSUME Inv, NEW p \in PosId, NEW request \in Revision, UpdatePosition(p, request)
  PROVE  Inv'
<1> DEFINE now == position[p]
           col == Updated(now.kind, now.col, request.col)
           entry == entryTypeOr(request.entry, now.entry)
           w == With(now, col, request.owner, entry, now.tag, now.status, now.ended, now.reading,
                     now.ledger)
<1>1. PositionOK(now) /\ request.kind = now.kind
  BY DEF UpdatePosition, Live, Inv, PositionsOK
<1>2. request.owner \in Member \cup {Joint}
      /\ DOMAIN request.col = Layers(now.kind).revision.must \cup Layers(now.kind).revision.may
  BY <1>1, FormAssumption
<1>3. Write(p, [now EXCEPT !.col = col, !.owner = request.owner, !.entry = entry])
  BY DEF UpdatePosition
<1>4. Missing(Layers(now.kind).revision.must, request.col) = {} /\ ValidTerm(now.kind, col)
  BY DEF UpdatePosition
<1>5. ColumnsOK(now.kind, col)  BY <1>1, <1>2, <1>4, UpdatedColumns DEF PositionOK
<1>6. entry # Nil  BY <1>1 DEF PositionOK, entryTypeOr
<1>7. /\ IsPosition(w)
      /\ w.kind = now.kind /\ w.deleted = now.deleted /\ w.col = col /\ w.owner = request.owner
      /\ w.entry = entry /\ w.tag = now.tag /\ w.status = now.status /\ w.ended = now.ended
      /\ w.reading = now.reading /\ w.ledger = now.ledger
  BY WithFields
<1> HIDE DEF now, col, entry
<1>8. [now EXCEPT !.col = col, !.owner = request.owner, !.entry = entry] = w
  <2>1. IsPosition(now)  BY <1>1 DEF PositionOK
  <2> QED  BY <2>1, FormSaved
<1> HIDE DEF w
<1>9. PositionOK(w)  BY <1>1, <1>2, <1>5, <1>6, <1>7 DEF PositionOK, EndOK
<1> QED  BY <1>3, <1>8, <1>9, Written

LEMMA DeletePositionInv ==
  ASSUME Inv, NEW p \in PosId, DeletePosition(p)
  PROVE  Inv'
<1> DEFINE now == position[p]
           reading == [m \in Month |-> <<>>]
           after == [now EXCEPT !.deleted = TRUE, !.reading = reading, !.ledger = <<>>]
<1>1. PositionOK(now)  BY DEF DeletePosition, Live, Inv, PositionsOK
<1>2. Write(p, after)  BY DEF DeletePosition
<1> HIDE DEF now
<1>3. after = [kind |-> now.kind, deleted |-> TRUE, col |-> now.col, owner |-> now.owner,
               entry |-> now.entry, tag |-> now.tag, status |-> now.status, ended |-> now.ended,
               reading |-> reading, ledger |-> <<>>]
  <2>1. IsPosition(now)  BY <1>1 DEF PositionOK
  <2> HIDE DEF reading
  <2> QED  BY <2>1, DeletionPut, Zenon DEF after
<1>4. reading \in [Month -> Seq(Row)]
  <2>1. <<>> \in Seq(Row)  OBVIOUS
  <2> QED  BY <2>1
<1> HIDE DEF reading, after
<1>5. /\ IsPosition(after)
      /\ after.kind = now.kind /\ after.deleted = TRUE /\ after.col = now.col
      /\ after.owner = now.owner /\ after.entry = now.entry /\ after.tag = now.tag
      /\ after.status = now.status /\ after.ended = now.ended
      /\ after.reading = reading /\ after.ledger = <<>>
  BY <1>3 DEF IsPosition
<1>6. LedgerOK(now.kind, <<>>)
  <2>1. <<>> \in Seq({}) /\ DOMAIN <<>> = {}  OBVIOUS
  <2> QED  BY <2>1 DEF LedgerOK
<1>7. PositionOK(after)  BY <1>1, <1>4, <1>5, <1>6 DEF PositionOK, EndOK
<1> QED  BY <1>2, <1>7, Written

----------------------------------------------------------------------------
(* Readings *)

\* Live positions are in order.
LEMMA KeptAreOK ==
  ASSUME Inv, NEW p \in Live
  PROVE  p \in PosId /\ PositionOK(position[p]) /\ ~position[p].deleted
BY DEF Live, Inv, PositionsOK

LEMMA SnapshotInv ==
  ASSUME Inv, NEW p \in PosId, NEW m \in Month, NEW r,
         CreateSnapshot(p, m, r) \/ UpsertSnapshot(p, m, r) \/ DeleteSnapshot(p, m)
  PROVE  Inv'
<1> DEFINE now == position[p]
<1>1. p \in Live  BY DEF CreateSnapshot, UpsertSnapshot, DeleteSnapshot, Kept
<1>2. PositionOK(now)  BY <1>1, KeptAreOK
<1>3. now.reading[m] \in Seq(Row)  BY <1>2 DEF PositionOK
<1>4. \E rows \in Seq(Row) : Write(p, [now EXCEPT !.reading = [now.reading EXCEPT ![m] = rows]])
  <2>1. CASE CreateSnapshot(p, m, r)
    <3>1. r \in Row  BY <2>1, ReadingsAreRows DEF CreateSnapshot
    <3>2. <<r>> \in Seq(Row)  BY <3>1
    <3>3. Write(p, [now EXCEPT !.reading[m] = <<r>>])  BY <2>1 DEF CreateSnapshot
    <3> QED  BY <3>2, <3>3
  <2>2. CASE UpsertSnapshot(p, m, r)
    <3> DEFINE old == IF now.reading[m] = <<>> THEN <<>> ELSE Tail(now.reading[m])
    <3>1. r \in Row  BY <2>2, ReadingsAreRows DEF UpsertSnapshot
    <3>2. old \in Seq(Row)  BY <1>3
    <3>3. Write(p, [now EXCEPT !.reading[m] = <<r>> \o old])  BY <2>2 DEF UpsertSnapshot
    <3> HIDE DEF old
    <3>4. <<r>> \o old \in Seq(Row)  BY <3>1, <3>2
    <3> QED  BY <3>3, <3>4
  <2>3. CASE DeleteSnapshot(p, m)
    <3>1. <<>> \in Seq(Row)  OBVIOUS
    <3>2. Write(p, [now EXCEPT !.reading[m] = <<>>])  BY <2>3 DEF DeleteSnapshot
    <3> QED  BY <3>1, <3>2
  <2> QED  BY <2>1, <2>2, <2>3
<1>5. PICK rows \in Seq(Row) : Write(p, [now EXCEPT !.reading = [now.reading EXCEPT ![m] = rows]])
  BY <1>4
<1>6. PositionOK([now EXCEPT !.reading = [now.reading EXCEPT ![m] = rows]])  BY <1>2, Reread
<1> QED  BY <1>5, <1>6, Written

----------------------------------------------------------------------------
(* The ledger and the lifecycle *)

EndingOK(status, ended, reading, ledger) ==
  /\ reading \in [Month -> Seq(Row)]
  /\ status \in {"active", "matured", "terminated"}
  /\ status = "active" => ended = Nil
  /\ status = "matured" => \E i \in Matured(ledger) : ledger[i].date = ended

\* A position with a longer ledger and another end.
LEMMA Ended ==
  ASSUME NEW q, PositionOK(q), NEW ledger, LedgerOK(q.kind, ledger),
         NEW reading, NEW status, NEW ended, EndingOK(status, ended, reading, ledger)
  PROVE  PositionOK(With(q, q.col, q.owner, q.entry, q.tag, status, ended, reading, ledger))
<1> DEFINE w == With(q, q.col, q.owner, q.entry, q.tag, status, ended, reading, ledger)
<1>1. /\ IsPosition(w)
      /\ w.kind = q.kind /\ w.deleted = q.deleted /\ w.col = q.col /\ w.owner = q.owner
      /\ w.entry = q.entry /\ w.tag = q.tag /\ w.status = status /\ w.ended = ended
      /\ w.reading = reading /\ w.ledger = ledger
  BY WithFields
<1> HIDE DEF w
<1>2. PositionOK(w)  BY <1>1 DEF PositionOK, EndOK, EndingOK
<1> QED  BY <1>2 DEF w

\* A row of a type the kind has is added to its ledger.
Adds(kind, ledger, row, longer) ==
  /\ LedgerOK(kind, ledger)
  /\ row.type \in allowedTransactions(kind)
  /\ longer = Append(ledger, row)

\* The longer ledger is one and ends in the row.
LEMMA Appended ==
  ASSUME NEW kind, NEW ledger, NEW row, NEW longer, Adds(kind, ledger, row, longer)
  PROVE  /\ LedgerOK(kind, longer)
         /\ Len(ledger) + 1 \in DOMAIN longer /\ longer[Len(ledger) + 1] = row
<1>0. /\ LedgerOK(kind, ledger) /\ row.type \in allowedTransactions(kind)
      /\ longer = Append(ledger, row)
  BY DEF Adds
<1>1. PICK S : ledger \in Seq(S)  BY <1>0 DEF LedgerOK
<1>2. ledger \in Seq(S \cup {row})  BY <1>1
<1>3. /\ longer \in Seq(S \cup {row})
      /\ Len(longer) = Len(ledger) + 1
      /\ \A i \in 1 .. Len(ledger) : longer[i] = ledger[i]
      /\ longer[Len(ledger) + 1] = row
  BY <1>0, <1>2
<1>4. /\ DOMAIN ledger = 1 .. Len(ledger) /\ Len(ledger) \in Nat
      /\ DOMAIN longer = 1 .. Len(ledger) + 1
  BY <1>1, <1>3
<1>5. \A i \in DOMAIN longer : longer[i].type \in allowedTransactions(kind)
  BY <1>0, <1>3, <1>4 DEF LedgerOK
<1>6. LedgerOK(kind, longer)  BY <1>3, <1>5 DEF LedgerOK
<1> QED  BY <1>3, <1>4, <1>6

LEMMA TransactionInv ==
  ASSUME Inv, NEW p \in PosId, NEW type, NEW m \in Month, CreateInvestmentTransaction(p, type, m)
  PROVE  Inv'
<1> DEFINE now == position[p]
           row == [type |-> type, date |-> m, at |-> writes + 1]
           ledger == Append(now.ledger, row)
           closed == [now.reading EXCEPT ![m] = writeCloseSnapshot(now.kind, now.reading[m])]
<1>1. p \in Live  BY DEF CreateInvestmentTransaction, Kept
<1>2. PositionOK(now) /\ IsPosition(now)  BY <1>1, KeptAreOK DEF PositionOK
<1>3. row.type = type /\ row.date = m  OBVIOUS
<1>4. type \in allowedTransactions(now.kind) /\ now.status = "active"
  BY DEF CreateInvestmentTransaction
<1>5. LedgerOK(now.kind, now.ledger) /\ now.reading \in [Month -> Seq(Row)]
      /\ (now.status = "active" => now.ended = Nil)
  BY <1>2 DEF PositionOK, EndOK
<1>6. \/ type # "maturity" /\ Write(p, [now EXCEPT !.ledger = ledger])
      \/ type = "maturity" /\ Write(p, [now EXCEPT !.ledger = ledger, !.status = "matured", !.ended = m,
                                                   !.reading = closed])
  BY DEF CreateInvestmentTransaction
<1> HIDE DEF now, row
<1>7. /\ LedgerOK(now.kind, ledger)
      /\ type = "maturity" => \E i \in Matured(ledger) : ledger[i] = row
  <2>1. row.type \in allowedTransactions(now.kind)  BY <1>3, <1>4
  <2>2. ledger = Append(now.ledger, row)  OBVIOUS
  <2> HIDE DEF ledger
  <2>3. Adds(now.kind, now.ledger, row, ledger)  BY <1>5, <2>1, <2>2 DEF Adds
  <2>4. /\ LedgerOK(now.kind, ledger)
        /\ Len(now.ledger) + 1 \in DOMAIN ledger /\ ledger[Len(now.ledger) + 1] = row
    BY <2>3, Appended
  <2>5. LedgerOK(now.kind, ledger) /\ \E i \in DOMAIN ledger : ledger[i] = row
    BY <2>4
  <2> QED  BY <1>3, <2>5 DEF Matured
<1> HIDE DEF ledger
<1>8. CASE type # "maturity" /\ Write(p, [now EXCEPT !.ledger = ledger])
  <2>1. [now EXCEPT !.ledger = ledger] =
          With(now, now.col, now.owner, now.entry, now.tag, now.status, now.ended, now.reading, ledger)
    BY <1>2, LedgerPut
  <2>2. PositionOK(With(now, now.col, now.owner, now.entry, now.tag, now.status, now.ended,
                        now.reading, ledger))
    <3>1. EndingOK(now.status, now.ended, now.reading, ledger)  BY <1>4, <1>5 DEF EndingOK
    <3> QED  BY <1>2, <1>7, <3>1, Ended
  <2> QED  BY <1>8, <2>1, <2>2, Written
<1>9. CASE type = "maturity" /\ Write(p, [now EXCEPT !.ledger = ledger, !.status = "matured",
                                                     !.ended = m, !.reading = closed])
  <2>1. closed \in [Month -> Seq(Row)]  BY <1>5, ClosedReadings
  <2> HIDE DEF closed
  <2>2. [now EXCEPT !.ledger = ledger, !.status = "matured", !.ended = m, !.reading = closed] =
          With(now, now.col, now.owner, now.entry, now.tag, "matured", m, closed, ledger)
    <3> DEFINE q == [now EXCEPT !.ledger = ledger]
    <3>1. [now EXCEPT !.ledger = ledger, !.status = "matured", !.ended = m, !.reading = closed] =
            [q EXCEPT !.status = "matured", !.ended = m, !.reading = closed]
      OBVIOUS
    <3>2. q = With(now, now.col, now.owner, now.entry, now.tag, now.status, now.ended, now.reading,
                   ledger)
      BY <1>2, LedgerPut
    <3> HIDE DEF q
    <3>3. IsPosition(q)  BY <3>2, WithFields
    <3>4. [q EXCEPT !.status = "matured", !.ended = m, !.reading = closed] =
            With(q, q.col, q.owner, q.entry, q.tag, "matured", m, closed, q.ledger)
      BY <3>3, EndPut
    <3>5. With(q, q.col, q.owner, q.entry, q.tag, "matured", m, closed, q.ledger) =
            With(now, now.col, now.owner, now.entry, now.tag, "matured", m, closed, ledger)
      BY <3>2 DEF With
    <3> QED  BY <3>1, <3>4, <3>5
  <2>3. \E i \in Matured(ledger) : ledger[i].date = m  BY <1>3, <1>7, <1>9
  <2>4. PositionOK(With(now, now.col, now.owner, now.entry, now.tag, "matured", m, closed, ledger))
    <3>1. EndingOK("matured", m, closed, ledger)  BY <2>1, <2>3 DEF EndingOK
    <3> QED  BY <1>2, <1>7, <3>1, Ended
  <2> QED  BY <1>9, <2>2, <2>4, Written
<1> QED  BY <1>6, <1>8, <1>9

LEMMA EndInv ==
  ASSUME Inv, NEW p \in PosId, (\E m \in Month : Terminate(p, m)) \/ Reactivate(p)
  PROVE  Inv'
<1> DEFINE now == position[p]
<1>1. p \in Live  BY DEF Terminate, Reactivate, Kept
<1>2. PositionOK(now) /\ IsPosition(now)  BY <1>1, KeptAreOK DEF PositionOK
<1>3. LedgerOK(now.kind, now.ledger) /\ now.reading \in [Month -> Seq(Row)]
  BY <1>2 DEF PositionOK
<1>4. \E ended : \E reading \in [Month -> Seq(Row)], status \in {"active", "terminated"} :
        /\ status = "active" => ended = Nil
        /\ Write(p, [now EXCEPT !.status = status, !.ended = ended, !.reading = reading])
  <2>1. ASSUME NEW m \in Month, Terminate(p, m)
        PROVE  Write(p, [now EXCEPT !.status = "terminated", !.ended = m,
                           !.reading = [now.reading EXCEPT ![m] = writeCloseSnapshot(now.kind, now.reading[m])]])
    BY <2>1 DEF Terminate
  <2>2. ASSUME NEW m \in Month
        PROVE  [now.reading EXCEPT ![m] = writeCloseSnapshot(now.kind, now.reading[m])] \in [Month -> Seq(Row)]
    BY <1>3, ClosedReadings
  <2>3. ASSUME Reactivate(p)
        PROVE  Write(p, [now EXCEPT !.status = "active", !.ended = Nil,
                           !.reading = [now.reading EXCEPT ![now.ended] = revertCloseSnapshot(now.reading[now.ended])]])
    BY <2>3 DEF Reactivate
  <2>4. [now.reading EXCEPT ![now.ended] = revertCloseSnapshot(now.reading[now.ended])] \in [Month -> Seq(Row)]
    <3>1. now.ended \in Month => revertCloseSnapshot(now.reading[now.ended]) \in Seq(Row)
      BY <1>3, ClosedReadings
    <3> QED  BY <1>3, <3>1
  <2> HIDE DEF now
  <2> QED  BY <2>1, <2>2, <2>3, <2>4
<1> HIDE DEF now
<1>5. PICK ended :
        \E reading \in [Month -> Seq(Row)], status \in {"active", "terminated"} :
          /\ status = "active" => ended = Nil
          /\ Write(p, [now EXCEPT !.status = status, !.ended = ended, !.reading = reading])
  BY <1>4
<1>6. PICK reading \in [Month -> Seq(Row)], status \in {"active", "terminated"} :
        /\ status = "active" => ended = Nil
        /\ Write(p, [now EXCEPT !.status = status, !.ended = ended, !.reading = reading])
  BY <1>5
<1>7. [now EXCEPT !.status = status, !.ended = ended, !.reading = reading] =
        With(now, now.col, now.owner, now.entry, now.tag, status, ended, reading, now.ledger)
  BY <1>2, EndPut
<1>8. PositionOK(With(now, now.col, now.owner, now.entry, now.tag, status, ended, reading, now.ledger))
  <2>1. EndingOK(status, ended, reading, now.ledger)  BY <1>6 DEF EndingOK
  <2> QED  BY <1>2, <1>3, <2>1, Ended
<1> QED  BY <1>6, <1>7, <1>8, Written

----------------------------------------------------------------------------
(* Tags *)

LEMMA CreateTagInv ==
  ASSUME Inv, NEW t \in TagId, NEW name \in Name, CreateTag(t, name)
  PROVE  Inv' /\ LiveTags(tag) \subseteq LiveTags(tag')
<1>1. /\ tag[t] = Nil /\ FreeName(t, name)
      /\ tag' = [tag EXCEPT ![t] = [name |-> name, deleted |-> FALSE]]
      /\ position' = position /\ file' = file /\ origin' = origin /\ job' = job
  BY DEF CreateTag
<1>2. tag \in [TagId -> Tag \cup {Nil}] /\ TagsOK(tag)  BY DEF Inv, TagsOK
<1>3. tag' \in [TagId -> Tag \cup {Nil}]  BY <1>1, <1>2 DEF Tag
<1>4. LiveTags(tag') \subseteq LiveTags(tag) \cup {t}  BY <1>1, <1>2 DEF LiveTags
<1>5. \A u \in LiveTags(tag) : u # t /\ tag'[u] = tag[u]  BY <1>1, <1>2 DEF LiveTags
<1>6. tag'[t].name = name /\ \A u \in LiveTags(tag) : tag[u].name # name
  BY <1>1, <1>2, <1>5 DEF FreeName
<1>7. TagsOK(tag')  BY <1>2, <1>3, <1>4, <1>5, <1>6 DEF TagsOK
<1>8. LiveTags(tag) \subseteq LiveTags(tag')  BY <1>5 DEF LiveTags
<1>9. JobOK'  BY <1>1 DEF Inv, JobOK
<1>10. PositionsOK' /\ position' = [p \in PosId |-> position'[p]]  BY <1>1 DEF Inv, PositionsOK
<1> QED  BY <1>1, <1>7, <1>8, <1>9, <1>10 DEF Inv

LEMMA UpdateTagInv ==
  ASSUME Inv, NEW t \in TagId, NEW name \in Name, UpdateTag(t, name)
  PROVE  Inv' /\ LiveTags(tag') = LiveTags(tag)
<1>1. /\ t \in LiveTags(tag) /\ FreeName(t, name)
      /\ tag' = [tag EXCEPT ![t] = [tag[t] EXCEPT !.name = name]]
      /\ position' = position /\ file' = file /\ origin' = origin /\ job' = job
  BY DEF UpdateTag
<1>2. tag \in [TagId -> Tag \cup {Nil}] /\ TagsOK(tag)  BY DEF Inv, TagsOK
<1>3. tag[t] \in Tag /\ ~tag[t].deleted  BY <1>1, <1>2 DEF LiveTags
<1>4. [tag[t] EXCEPT !.name = name] \in Tag
      /\ [tag[t] EXCEPT !.name = name].name = name
      /\ [tag[t] EXCEPT !.name = name].deleted = tag[t].deleted
  BY <1>3 DEF Tag
<1>5. tag' \in [TagId -> Tag \cup {Nil}] /\ tag'[t] \in Tag /\ tag'[t].name = name /\ ~tag'[t].deleted
      /\ \A u \in TagId : u # t => tag'[u] = tag[u]
  BY <1>1, <1>2, <1>3, <1>4
<1>6. LiveTags(tag') = LiveTags(tag)
  <2>1. tag'[t] # Nil  BY <1>5, NilAssumption DEF Tag
  <2> QED  BY <1>1, <1>5, <2>1 DEF LiveTags
<1>7. TagsOK(tag')
  <2>1. \A u \in LiveTags(tag) \ {t} : tag'[u].name = tag[u].name /\ tag[u].name # name
    BY <1>1, <1>5 DEF FreeName, LiveTags
  <2> QED  BY <1>2, <1>5, <1>6, <2>1 DEF TagsOK
<1>8. JobOK'  BY <1>1 DEF Inv, JobOK
<1>9. PositionsOK' /\ position' = [p \in PosId |-> position'[p]]  BY <1>1 DEF Inv, PositionsOK
<1> QED  BY <1>1, <1>6, <1>7, <1>8, <1>9 DEF Inv

LEMMA DeleteTagInv ==
  ASSUME Inv, NEW t \in TagId, DeleteTag(t)
  PROVE  /\ Inv'
         /\ LiveTags(tag') = LiveTags(tag) \ {t}
         /\ \A p \in PosId :
              position'[p] = IF position[p] # Nil /\ position[p].tag = t
                             THEN [position[p] EXCEPT !.tag = Nil] ELSE position[p]
<1>1. /\ t \in LiveTags(tag)
      /\ tag' = [tag EXCEPT ![t] = [tag[t] EXCEPT !.deleted = TRUE]]
      /\ file' = file /\ origin' = origin /\ job' = job
  BY DEF DeleteTag
<1>2. position' = [p \in PosId |-> IF position[p] # Nil /\ position[p].tag = t
                                   THEN [position[p] EXCEPT !.tag = Nil] ELSE position[p]]
  BY DEF DeleteTag
<1>3. tag \in [TagId -> Tag \cup {Nil}] /\ TagsOK(tag)  BY DEF Inv, TagsOK
<1>4. tag[t] \in Tag  BY <1>1, <1>3 DEF LiveTags
<1>5. [tag[t] EXCEPT !.deleted = TRUE] \in Tag /\ [tag[t] EXCEPT !.deleted = TRUE].deleted
  BY <1>4 DEF Tag
<1>6. tag' \in [TagId -> Tag \cup {Nil}] /\ tag'[t].deleted
      /\ \A u \in TagId : u # t => tag'[u] = tag[u]
  BY <1>1, <1>3, <1>5
<1>7. LiveTags(tag') = LiveTags(tag) \ {t}  BY <1>6 DEF LiveTags
<1>8. TagsOK(tag')
  <2>1. \A u \in LiveTags(tag') : u \in LiveTags(tag) /\ tag'[u] = tag[u]
    BY <1>6, <1>7 DEF LiveTags
  <2> QED  BY <1>3, <1>6, <2>1 DEF TagsOK
<1>9. PositionsOK'
  <2>1. SUFFICES ASSUME NEW p \in PosId, position'[p] # Nil PROVE PositionOK(position'[p])
    BY DEF PositionsOK
  <2>2. CASE position[p] # Nil /\ position[p].tag = t
    <3>1. PositionOK(position[p])  BY <2>2 DEF Inv, PositionsOK
    <3>2. position'[p] = [position[p] EXCEPT !.tag = Nil]  BY <1>2, <2>2
    <3> QED  BY <3>1, <3>2, Retagged
  <2>3. CASE ~(position[p] # Nil /\ position[p].tag = t)
    <3>1. position'[p] = position[p]  BY <1>2, <2>3
    <3> QED  BY <2>1, <3>1 DEF Inv, PositionsOK
  <2> QED  BY <2>2, <2>3
<1>10. JobOK'  BY <1>1 DEF Inv, JobOK
<1>11. position' = [p \in PosId |-> position'[p]]  BY <1>2
<1>12. (file # Nil => ExportOK(file, origin))'  BY <1>1 DEF Inv
<1>13. Inv'  BY <1>8, <1>9, <1>10, <1>11, <1>12 DEF Inv
<1>14. \A p \in PosId :
         position'[p] = IF position[p] # Nil /\ position[p].tag = t
                        THEN [position[p] EXCEPT !.tag = Nil] ELSE position[p]
  BY <1>2
<1> QED  BY <1>7, <1>13, <1>14

LEMMA BeginAssignInv ==
  ASSUME Inv, NEW p \in PosId, NEW t \in TagId, BeginAssign(p, t)
  PROVE  Inv'
<1>1. /\ t \in LiveTags(tag)
      /\ job' = [do |-> "assign", position |-> p, tag |-> t, tags |-> tag]
      /\ position' = position /\ tag' = tag /\ file' = file /\ origin' = origin
  BY DEF BeginAssign
<1>2. JobOK'
  <2>1. job'.do = "assign" /\ job'.tag = t /\ job'.tags = tag  BY <1>1
  <2> QED  BY <1>1, <2>1 DEF JobOK
<1>3. PositionsOK' /\ position' = [x \in PosId |-> position'[x]]  BY <1>1 DEF Inv, PositionsOK
<1> QED  BY <1>1, <1>2, <1>3 DEF Inv

\* What a request has resolved.
LEMMA JobTag ==
  ASSUME JobOK, job # Idle
  PROVE  /\ job.do \in {"assign", "import"}
         /\ job.tag \in LiveTags(job.tags) \cup {Nil}
         /\ job.do = "assign" => job.tag \in LiveTags(job.tags)
         /\ job.tag \in TagId \cup {Nil}
BY DEF JobOK, LiveTags

LEMMA AssignTagInv ==
  ASSUME Inv, AssignTag
  PROVE  /\ Inv' /\ job.do = "assign" /\ job' = Idle /\ tag' = tag
         /\ job.tag \in LiveTags(job.tags)
         /\ \A p \in PosId :
              \/ position'[p] = position[p]
              \/ p \in Live /\ position'[p] = [position[p] EXCEPT !.tag = job.tag]
<1>1. /\ job.do = "assign" /\ job' = Idle
      /\ tag' = tag /\ file' = file /\ origin' = origin
      /\ \/ position' = position
         \/ /\ job.position \in Live
            /\ position' =
                [position EXCEPT ![job.position] = [position[job.position] EXCEPT !.tag = job.tag]]
  BY DEF AssignTag
<1>2. job # Idle  BY <1>1 DEF Idle
<1>3. job.tag \in LiveTags(job.tags) /\ job.tag \in TagId \cup {Nil}
  BY <1>1, <1>2, JobTag DEF Inv
<1>4. JobOK'  BY <1>1 DEF JobOK
<1>5. CASE position' = position
  <2>1. PositionsOK' /\ position' = [x \in PosId |-> position'[x]]  BY <1>5 DEF Inv, PositionsOK
  <2> QED  BY <1>1, <1>3, <1>4, <1>5, <2>1 DEF Inv
<1>6. CASE /\ job.position \in Live
           /\ position' =
                [position EXCEPT ![job.position] = [position[job.position] EXCEPT !.tag = job.tag]]
  <2> DEFINE after == [position[job.position] EXCEPT !.tag = job.tag]
  <2>1. PositionOK(position[job.position])  BY <1>6, KeptAreOK
  <2>2. PositionOK(after)  BY <1>3, <2>1, Retagged
  <2>3. position' = [position EXCEPT ![job.position] = after]  BY <1>6
  <2>4. \A p \in PosId : \/ position'[p] = position[p]
                         \/ p \in Live /\ position'[p] = [position[p] EXCEPT !.tag = job.tag]
    BY <1>6, <2>3 DEF Inv
  <2> HIDE DEF after
  <2>5. PositionsOK' /\ position' = [x \in PosId |-> position'[x]]
    BY <2>2, <2>3 DEF Inv, PositionsOK
  <2> QED  BY <1>1, <1>3, <1>4, <2>4, <2>5 DEF Inv
<1> QED  BY <1>1, <1>5, <1>6

LEMMA ClearTagInv ==
  ASSUME Inv, NEW p \in PosId, ClearTag(p)
  PROVE  Inv'
<1>1. p \in Live /\ Write(p, [position[p] EXCEPT !.tag = Nil])  BY DEF ClearTag
<1>2. PositionOK(position[p])  BY <1>1, KeptAreOK
<1>3. PositionOK([position[p] EXCEPT !.tag = Nil])  BY <1>2, Retagged
<1> QED  BY <1>1, <1>3, Written

----------------------------------------------------------------------------
(* The workbook *)

LEMMA ExportInv ==
  ASSUME Inv, NEW p \in PosId, Export(p)
  PROVE  Inv'
<1>1. /\ p \in Live
      /\ position[p].tag = Nil \/ position[p].tag \in LiveTags(tag)
      /\ \E sheet \in transactionsToExport(position[p].ledger) :
           file' = BuildWorkbook(position[p], tag, sheet)
      /\ origin' = [position |-> position[p], tags |-> tag]
      /\ position' = position /\ tag' = tag /\ job' = job
  BY DEF Export
<1>2. PositionOK(position[p]) /\ ~position[p].deleted  BY <1>1, KeptAreOK
<1>3. origin'.position = position[p] /\ origin'.tags = tag  BY <1>1
<1>4. ExportOK(file', origin')  BY <1>1, <1>2, <1>3 DEF ExportOK, Inv
<1>5. JobOK'  BY <1>1 DEF Inv, JobOK
<1>6. PositionsOK' /\ position' = [x \in PosId |-> position'[x]]  BY <1>1 DEF Inv, PositionsOK
<1> QED  BY <1>1, <1>4, <1>5, <1>6 DEF Inv

\* An edited workbook is a workbook.
LEMMA EditedIsWorkbook ==
  ASSUME NEW f, WorkbookOK(f), NEW g \in Edited(f)
  PROVE  WorkbookOK(g)
<1> DEFINE W(k, d, o, e, n, t, r, l, x) ==
             [kind |-> k, detail |-> d, ownership |-> o, email |-> e, entry |-> n, tag |-> t,
              rows |-> r, ledger |-> l, garbled |-> x]
<1>1. PICK k, d, o, e, n, t, r, l, x : f = W(k, d, o, e, n, t, r, l, x)  BY DEF WorkbookOK
<1>2. f.kind = k /\ f.detail = d /\ f.entry = n /\ f.ownership = o /\ f.rows = r /\ f.ledger = l
  BY <1>1
<1>3. /\ k \in Kind /\ d = [c \in Columns(k) |-> d[c]] /\ n # Nil /\ o \in {"joint", "sole"}
      /\ r \in [Month -> Row \cup {Nil}] /\ \E S : l \in Seq(S)
  BY <1>2 DEF WorkbookOK
<1>4. ASSUME NEW d2, d2 = [c \in Columns(k) |-> d2[c]], NEW o2 \in {"joint", "sole"}, NEW e2, NEW x2
      PROVE  WorkbookOK(W(k, d2, o2, e2, n, t, r, l, x2))
  BY <1>3, <1>4 DEF WorkbookOK
<1>5. CASE g = f  BY <1>5
<1>6. CASE \E c \in Text : g = [f EXCEPT !.detail[c] = Nil]
  <2>1. PICK c \in Text : g = [f EXCEPT !.detail = [f.detail EXCEPT ![c] = Nil]]  BY <1>6
  <2> DEFINE d2 == [d EXCEPT ![c] = Nil]
  <2>2. g = [f EXCEPT !.detail = d2]  BY <1>2, <2>1
  <2>3. d2 = [y \in Columns(k) |-> d2[y]]  BY <1>3
  <2> HIDE DEF d2
  <2>4. g = W(k, d2, o, e, n, t, r, l, x)  BY <1>1, <2>2
  <2> QED  BY <1>3, <1>4, <2>3, <2>4
<1>7. CASE g = [f EXCEPT !.ownership = "sole", !.email = Stranger]
  <2> DEFINE h == [f EXCEPT !.ownership = "sole"]
  <2>1. g = [h EXCEPT !.email = Stranger]  BY <1>7
  <2>2. h = W(k, d, "sole", e, n, t, r, l, x)  BY <1>1
  <2> HIDE DEF h
  <2>3. g = W(k, d, "sole", Stranger, n, t, r, l, x)  BY <2>1, <2>2
  <2> QED  BY <1>3, <1>4, <2>3
<1>8. CASE g = [f EXCEPT !.garbled = TRUE]
  <2> DEFINE spoilt == TRUE
  <2>1. g = [f EXCEPT !.garbled = spoilt]  BY <1>8
  <2> HIDE DEF spoilt
  <2>2. g = W(k, d, o, e, n, t, r, l, spoilt)  BY <1>1, <2>1
  <2> QED  BY <1>3, <1>4, <2>2
<1> QED  BY <1>5, <1>6, <1>7, <1>8 DEF Edited

LEMMA UploadInv ==
  ASSUME Inv, Upload
  PROVE  Inv'
<1>1. /\ file # Nil
      /\ position' = position /\ tag' = tag /\ file' = file /\ origin' = origin
  BY DEF Upload
<1>2. PICK f \in Edited(file) :
        /\ Valid(f)
        /\ job' = [do |-> "import", file |-> f, tag |-> LookupTagIDByName(tag, f.tag), tags |-> tag]
  BY DEF Upload
<1>3. WorkbookOK(file)
  BY <1>1, FileSays DEF Inv, ExportOK
<1>4. WorkbookOK(f)  BY <1>3, EditedIsWorkbook
<1>5. LookupTagIDByName(tag, f.tag) \in LiveTags(tag) \cup {Nil}  BY DEF LookupTagIDByName
<1>6. JobOK'
  <2>1. job'.do = "import" /\ job'.file = f /\ job'.tags = tag
        /\ job'.tag = LookupTagIDByName(tag, f.tag)
    BY <1>2
  <2> QED  BY <1>2, <1>4, <1>5, <2>1 DEF JobOK
<1>7. PositionsOK' /\ position' = [x \in PosId |-> position'[x]]  BY <1>1 DEF Inv, PositionsOK
<1> QED  BY <1>1, <1>6, <1>7 DEF Inv

\* What a valid workbook makes is a position.
LEMMA ImportedIsPosition ==
  ASSUME NEW f, WorkbookOK(f), Valid(f), Commits(f), NEW t \in TagId \cup {Nil}
  PROVE  /\ PositionOK(createInvestmentWithHistory(f, t))
         /\ createInvestmentWithHistory(f, t).tag = t
<1> DEFINE kind == f.kind
           detail == ParseDetail(f)
           matured == Matured(f.ledger)
           col == Inserted(kind, Layers(kind).seed, detail)
           new == createInvestmentWithHistory(f, t)
<1>1. /\ kind \in Kind /\ f.entry # Nil /\ f.ownership \in {"joint", "sole"}
      /\ f.rows \in [Month -> Row \cup {Nil}]
  BY DEF WorkbookOK
<1>2. PICK S : f.ledger \in Seq(S)  BY DEF WorkbookOK
<1>3. /\ new.kind = kind /\ new.deleted = FALSE /\ new.col = col
      /\ new.owner = (IF f.ownership = "joint" THEN Joint ELSE f.email)
      /\ new.entry = entryTypeOr(f.entry, "acquired") /\ new.tag = t
      /\ new.status = (IF matured = {} THEN "active" ELSE "matured")
      /\ new.ended = (IF matured = {} THEN Nil ELSE f.ledger[CHOOSE i \in matured : TRUE].date)
      /\ new.reading = seedSnapshots(f) /\ new.ledger = seedLedger(f.ledger)
      /\ IsPosition(new)
  BY DEF createInvestmentWithHistory, IsPosition
<1>4. ColumnsOK(kind, col)
  <2>1. DOMAIN detail = Layers(kind).resolve  BY DEF ParseDetail
  <2>2. /\ Columns(kind) \subseteq Layers(kind).seed /\ Columns(kind) \subseteq DOMAIN detail
        /\ Layers(kind).form.must \subseteq Columns(kind) \ Layers(kind).drop
    BY <1>1, <2>1, AllFit DEF LayersFit
  <2>3. Missing(Required(kind, detail), detail) \ Layers(kind).drop = {}
    BY DEF Valid, CollectFieldErrors
  <2>4. ValidTerm(kind, detail)  BY DEF Commits
  <2>5. kind = "bond" => "coupon_disposition" \in DOMAIN detail  BY <2>2, BondLayers
  <2> HIDE DEF detail
  <2>6. ASSUME NEW c \in Layers(kind).form.must PROVE c \in DOMAIN detail /\ detail[c] # Nil
    BY <2>2, <2>3 DEF Missing, Required
  <2> QED  BY <1>1, <2>2, <2>4, <2>5, <2>6, NewColumns
<1>5. new.owner \in Member \cup {Joint}
  BY <1>1, <1>3 DEF Valid, OwnerErrors
<1>6. new.entry # Nil  BY <1>1, <1>3 DEF entryTypeOr
<1>7. seedSnapshots(f) \in [Month -> Seq(Row)]
  <2> DEFINE at(m) == IF \E i \in matured : f.ledger[i].date = m THEN <<ZeroReading(kind)>>
                      ELSE IF f.rows[m] = Nil THEN <<>> ELSE <<parseValues(kind, f.rows[m])>>
  <2>1. ASSUME NEW m \in Month PROVE at(m) \in Seq(Row)
    <3>1. <<ZeroReading(kind)>> \in Seq(Row)
      <4>1. ZeroReading(kind) \in Row  BY ReadingsAreRows
      <4> QED  BY <4>1
    <3>2. <<>> \in Seq(Row)  OBVIOUS
    <3>3. f.rows[m] # Nil => <<parseValues(kind, f.rows[m])>> \in Seq(Row)
      <4>1. f.rows[m] # Nil => f.rows[m] \in Row  BY <1>1
      <4>2. f.rows[m] # Nil => parseValues(kind, f.rows[m]) \in Row  BY <4>1, ParsedRows
      <4> QED  BY <4>2
    <3> QED  BY <3>1, <3>2, <3>3
  <2>2. seedSnapshots(f) = [m \in Month |-> at(m)]  BY DEF seedSnapshots
  <2> HIDE DEF at
  <2> QED  BY <2>1, <2>2
<1>8. PICK b : Matches(b, seedLedger(f.ledger), f.ledger)  BY <1>2, SeedMatches
<1>9. LedgerOK(kind, seedLedger(f.ledger))
  <2>1. \A i \in DOMAIN f.ledger : f.ledger[i].type \in allowedTransactions(kind)
    BY DEF Valid, validateLedger
  <2>2. \A i \in DOMAIN seedLedger(f.ledger) :
          seedLedger(f.ledger)[i].type \in allowedTransactions(kind)
    BY <1>8, <2>1 DEF Matches
  <2>3. \E T : seedLedger(f.ledger) \in Seq(T)  BY <1>2, SeedIsLedger
  <2> QED  BY <2>2, <2>3 DEF LedgerOK
<1>10. matured # {} => \E i \in Matured(new.ledger) : new.ledger[i].date = new.ended
  <2>1. matured # {} => (CHOOSE i \in matured : TRUE) \in matured  OBVIOUS
  <2>2. \A j \in matured : \E i \in Matured(seedLedger(f.ledger)) :
          seedLedger(f.ledger)[i].date = f.ledger[j].date
    <3>1. \A j \in Matured(f.ledger) : \E i \in Matured(seedLedger(f.ledger)) :
            b[i] = j /\ seedLedger(f.ledger)[i].date = f.ledger[j].date
      <4> DEFINE seed == seedLedger(f.ledger)
                 l == f.ledger
      <4>1. Matches(b, seed, l) /\ l \in Seq(S)  BY <1>2, <1>8
      <4> HIDE DEF seed, l
      <4>2. \A j \in Matured(l) : \E i \in Matured(seed) : b[i] = j /\ seed[i].date = l[j].date
        BY <4>1 DEF Matches, Matured
      <4> QED  BY <4>2 DEF seed, l
    <3> QED  BY <3>1
  <2> QED  BY <1>3, <2>1, <2>2
<1> HIDE DEF new, col, matured, kind
<1>11. EndOK(new)  BY <1>3, <1>10 DEF EndOK
<1>12. PositionOK(new)
  BY <1>1, <1>3, <1>4, <1>5, <1>6, <1>7, <1>9, <1>11 DEF PositionOK
<1> QED  BY <1>3, <1>12 DEF new

LEMMA ImportInv ==
  ASSUME Inv, Import
  PROVE  /\ Inv' /\ job.do = "import" /\ job' = Idle /\ tag' = tag
         /\ job.tag \in LiveTags(job.tags) \cup {Nil}
         /\ \A p \in PosId : position'[p] = position[p] \/ position'[p].tag = job.tag
<1>1. /\ job.do = "import" /\ job' = Idle
      /\ tag' = tag /\ file' = file /\ origin' = origin
      /\ \/ position' = position
         \/ /\ Commits(job.file)
            /\ \E p \in Fresh :
                 position' = [position EXCEPT ![p] = createInvestmentWithHistory(job.file, job.tag)]
  BY DEF Import
<1>2. job # Idle  BY <1>1 DEF Idle
<1>3. job.tag \in LiveTags(job.tags) \cup {Nil} /\ job.tag \in TagId \cup {Nil}
  BY <1>2, JobTag DEF Inv
<1>4. WorkbookOK(job.file) /\ Valid(job.file)  BY <1>1, <1>2 DEF Inv, JobOK
<1>5. JobOK'  BY <1>1 DEF JobOK
<1>6. CASE position' = position
  <2>1. PositionsOK' /\ position' = [x \in PosId |-> position'[x]]  BY <1>6 DEF Inv, PositionsOK
  <2> QED  BY <1>1, <1>3, <1>5, <1>6, <2>1 DEF Inv
<1>7. CASE /\ Commits(job.file)
           /\ \E p \in Fresh :
                position' = [position EXCEPT ![p] = createInvestmentWithHistory(job.file, job.tag)]
  <2> DEFINE new == createInvestmentWithHistory(job.file, job.tag)
  <2>1. PICK p \in Fresh : position' = [position EXCEPT ![p] = new]  BY <1>7
  <2>2. PositionOK(new) /\ new.tag = job.tag  BY <1>3, <1>4, <1>7, ImportedIsPosition
  <2>3. p \in PosId  BY DEF Fresh
  <2> HIDE DEF new
  <2>4. PositionsOK' /\ position' = [x \in PosId |-> position'[x]]
    BY <2>1, <2>2 DEF Inv, PositionsOK
  <2>5. \A x \in PosId : position'[x] = position[x] \/ position'[x].tag = job.tag
    BY <2>1, <2>2 DEF Inv
  <2> QED  BY <1>1, <1>3, <1>5, <2>4, <2>5 DEF Inv
<1> QED  BY <1>1, <1>6, <1>7

----------------------------------------------------------------------------
(* The tags positions wear *)

\* What a write of other fields leaves the tag.
LEMMA TagStays ==
  ASSUME NEW q, IsPosition(q), NEW w, NEW x, NEW y, NEW z
  PROVE  /\ [q EXCEPT !.col = x, !.owner = y, !.entry = z].tag = q.tag
         /\ [q EXCEPT !.deleted = x, !.reading = y, !.ledger = z].tag = q.tag
         /\ [q EXCEPT !.reading = x].tag = q.tag
         /\ [q EXCEPT !.ledger = x].tag = q.tag
         /\ [q EXCEPT !.status = x, !.ended = y, !.reading = z].tag = q.tag
         /\ [q EXCEPT !.ledger = w, !.status = x, !.ended = y, !.reading = z].tag = q.tag
         /\ [q EXCEPT !.tag = x].tag = x
<1>1. [q EXCEPT !.col = x, !.owner = y, !.entry = z].tag = q.tag  BY FormSaved DEF With
<1>2. [q EXCEPT !.deleted = x, !.reading = y, !.ledger = z].tag = q.tag  BY DeletionPut
<1>3. [q EXCEPT !.reading = x].tag = q.tag  BY ReadingPut DEF With
<1>4. [q EXCEPT !.ledger = x].tag = q.tag  BY LedgerPut DEF With
<1>5. [q EXCEPT !.status = x, !.ended = y, !.reading = z].tag = q.tag  BY EndPut DEF With
<1>6. [q EXCEPT !.ledger = w, !.status = x, !.ended = y, !.reading = z].tag = q.tag
  <2> DEFINE r == [q EXCEPT !.ledger = w]
  <2>1. [q EXCEPT !.ledger = w, !.status = x, !.ended = y, !.reading = z] =
          [r EXCEPT !.status = x, !.ended = y, !.reading = z]
    OBVIOUS
  <2>2. r = With(q, q.col, q.owner, q.entry, q.tag, q.status, q.ended, q.reading, w)  BY LedgerPut
  <2>3. IsPosition(r) /\ r.tag = q.tag  BY <2>2, WithFields
  <2> HIDE DEF r
  <2>4. [r EXCEPT !.status = x, !.ended = y, !.reading = z].tag = r.tag  BY <2>3, EndPut DEF With
  <2> QED  BY <2>1, <2>3, <2>4
<1>7. [q EXCEPT !.tag = x].tag = x  BY TagPut DEF With
<1> QED  BY <1>1, <1>2, <1>3, <1>4, <1>5, <1>6, <1>7

\* A write that keeps the tag of a live position or takes it away.
KeepsTag(p) ==
  \E after : /\ Write(p, after)
             /\ after.tag = Nil \/ (p \in Live /\ after.tag = position[p].tag)

\* Such a write puts no deleted tag on any position.
LEMMA KeptTags ==
  ASSUME Inv, NEW p \in PosId, KeepsTag(p), NEW q \in PosId, ~WearsDeadTag(q)
  PROVE  ~WearsDeadTag(q)'
<1>1. PICK after : /\ Write(p, after)
                   /\ after.tag = Nil \/ (p \in Live /\ after.tag = position[p].tag)
  BY DEF KeepsTag
<1>2. position' = [position EXCEPT ![p] = after] /\ tag' = tag  BY <1>1 DEF Write
<1>3. CASE q = p
  <2>1. position'[q] = after  BY <1>2, <1>3 DEF Inv
  <2> QED  BY <1>1, <1>2, <1>3, <2>1 DEF WearsDeadTag
<1>4. CASE q # p
  <2>1. position'[q] = position[q]  BY <1>2, <1>4 DEF Inv
  <2> QED  BY <1>2, <2>1 DEF WearsDeadTag, Live
<1> QED  BY <1>3, <1>4

\* None of the users' other writes changes a tag.
LEMMA WritesKeepTags ==
  ASSUME Inv, NEW p \in PosId,
         \/ \E request : CreatePosition(p, request) \/ UpdatePosition(p, request)
         \/ DeletePosition(p) \/ Reactivate(p) \/ ClearTag(p)
         \/ \E m \in Month : DeleteSnapshot(p, m) \/ Terminate(p, m)
         \/ \E r : \E m \in Month : CreateSnapshot(p, m, r) \/ UpsertSnapshot(p, m, r)
         \/ \E type : \E m \in Month : CreateInvestmentTransaction(p, type, m)
  PROVE  KeepsTag(p)
<1> DEFINE now == position[p]
<1>1. p \in Live => IsPosition(now)  BY KeptAreOK DEF PositionOK
<1>2. ASSUME NEW request, CreatePosition(p, request) PROVE KeepsTag(p)
  <2>1. PICK after : Write(p, after) /\ after.tag = Nil  BY <1>2 DEF CreatePosition
  <2> QED  BY <2>1 DEF KeepsTag
<1>3. ASSUME NEW request, UpdatePosition(p, request) PROVE KeepsTag(p)
  <2>1. p \in Live  BY <1>3 DEF UpdatePosition
  <2>2. PICK x, y, z : Write(p, [now EXCEPT !.col = x, !.owner = y, !.entry = z])
    BY <1>3 DEF UpdatePosition
  <2> DEFINE after == [now EXCEPT !.col = x, !.owner = y, !.entry = z]
  <2>3. after.tag = now.tag  BY <1>1, <2>1, TagStays
  <2>4. Write(p, after)  BY <2>2
  <2> HIDE DEF after
  <2> QED  BY <2>1, <2>3, <2>4 DEF KeepsTag
<1>4. CASE DeletePosition(p)
  <2>1. p \in Live  BY <1>4 DEF DeletePosition
  <2>2. PICK x, y, z : Write(p, [now EXCEPT !.deleted = x, !.reading = y, !.ledger = z])
    BY <1>4 DEF DeletePosition
  <2> DEFINE after == [now EXCEPT !.deleted = x, !.reading = y, !.ledger = z]
  <2>3. after.tag = now.tag  BY <1>1, <2>1, TagStays
  <2>4. Write(p, after)  BY <2>2
  <2> HIDE DEF after
  <2> QED  BY <2>1, <2>3, <2>4 DEF KeepsTag
<1>5. CASE Reactivate(p) \/ \E m \in Month : Terminate(p, m)
  <2>1. p \in Live  BY <1>5 DEF Reactivate, Terminate, Kept
  <2>2. PICK x, y, z : Write(p, [now EXCEPT !.status = x, !.ended = y, !.reading = z])
    BY <1>5 DEF Reactivate, Terminate
  <2> DEFINE after == [now EXCEPT !.status = x, !.ended = y, !.reading = z]
  <2>3. after.tag = now.tag  BY <1>1, <2>1, TagStays
  <2>4. Write(p, after)  BY <2>2
  <2> HIDE DEF after
  <2> QED  BY <2>1, <2>3, <2>4 DEF KeepsTag
<1>6. CASE ClearTag(p)
  <2> DEFINE after == [now EXCEPT !.tag = Nil]
  <2>1. p \in Live /\ Write(p, after)  BY <1>6 DEF ClearTag
  <2>2. after.tag = Nil  BY <1>1, <2>1, TagStays
  <2> HIDE DEF after
  <2> QED  BY <2>1, <2>2 DEF KeepsTag
<1>7. CASE \/ \E m \in Month : DeleteSnapshot(p, m)
           \/ \E r : \E m \in Month : CreateSnapshot(p, m, r) \/ UpsertSnapshot(p, m, r)
  <2>1. p \in Live  BY <1>7 DEF DeleteSnapshot, CreateSnapshot, UpsertSnapshot, Kept
  <2>2. PICK x : Write(p, [now EXCEPT !.reading = x])
    BY <1>7 DEF DeleteSnapshot, CreateSnapshot, UpsertSnapshot
  <2> DEFINE after == [now EXCEPT !.reading = x]
  <2>3. after.tag = now.tag  BY <1>1, <2>1, TagStays
  <2>4. Write(p, after)  BY <2>2
  <2> HIDE DEF after
  <2> QED  BY <2>1, <2>3, <2>4 DEF KeepsTag
<1>8. ASSUME NEW type, NEW m \in Month, CreateInvestmentTransaction(p, type, m) PROVE KeepsTag(p)
  <2>1. p \in Live  BY <1>8 DEF CreateInvestmentTransaction, Kept
  <2>2. \E w, x, y, z :
          \/ Write(p, [now EXCEPT !.ledger = w])
          \/ Write(p, [now EXCEPT !.ledger = w, !.status = x, !.ended = y, !.reading = z])
    BY <1>8 DEF CreateInvestmentTransaction
  <2>3. PICK w, x, y, z :
          \/ Write(p, [now EXCEPT !.ledger = w])
          \/ Write(p, [now EXCEPT !.ledger = w, !.status = x, !.ended = y, !.reading = z])
    BY <2>2
  <2> DEFINE after == [now EXCEPT !.ledger = w]
             ended == [now EXCEPT !.ledger = w, !.status = x, !.ended = y, !.reading = z]
  <2>4. after.tag = now.tag /\ ended.tag = now.tag  BY <1>1, <2>1, TagStays
  <2>5. Write(p, after) \/ Write(p, ended)  BY <2>3
  <2> HIDE DEF after, ended
  <2> QED  BY <2>1, <2>4, <2>5 DEF KeepsTag
<1> QED  BY <1>2, <1>3, <1>4, <1>5, <1>6, <1>7, <1>8

\* What a step does that puts a deleted tag on a position.
LEMMA RacesOnly ==
  ASSUME Inv, [Next]_vars, NEW p \in PosId, WearsDeadTag(p)', ~WearsDeadTag(p)
  PROVE  /\ job.do \in {"assign", "import"}
         /\ job' = Idle
         /\ position'[p].tag = job.tag
         /\ job.tag \in LiveTags(job.tags)
<1>1. /\ position'[p] # Nil /\ ~position'[p].deleted
      /\ position'[p].tag # Nil /\ position'[p].tag \notin LiveTags(tag')
  BY DEF WearsDeadTag, Live
<1>2. ASSUME position'[p] = position[p] PROVE position[p].tag \in LiveTags(tag)
  BY <1>1, <1>2 DEF WearsDeadTag, Live
<1>3. ASSUME NEW q \in PosId, KeepsTag(q) PROVE FALSE  BY <1>3, KeptTags
<1>4. ASSUME position' = position, LiveTags(tag) \subseteq LiveTags(tag') PROVE FALSE
  BY <1>1, <1>2, <1>4
<1>5. CASE UNCHANGED vars  BY <1>4, <1>5 DEF vars
<1>6. CASE \E q \in PosId, request \in Request : CreatePosition(q, request)
  BY <1>3, <1>6, WritesKeepTags
<1>7. CASE \E q \in PosId, request \in Revision : UpdatePosition(q, request)
  BY <1>3, <1>7, WritesKeepTags
<1>8. CASE \E q \in PosId : DeletePosition(q) \/ Reactivate(q) \/ ClearTag(q)
  BY <1>3, <1>8, WritesKeepTags
<1>9. CASE \E q \in PosId : Export(q)  BY <1>4, <1>9 DEF Export
<1>10. CASE \E q \in PosId, m \in Month : DeleteSnapshot(q, m) \/ Terminate(q, m)
  BY <1>3, <1>10, WritesKeepTags
<1>11. CASE \E q \in PosId, m \in Month, r \in UNION {Readings(k) : k \in Busy} :
              CreateSnapshot(q, m, r) \/ UpsertSnapshot(q, m, r)
  BY <1>3, <1>11, WritesKeepTags
<1>12. CASE \E q \in PosId, m \in Month, type \in UNION {allowedTransactions(k) : k \in Busy} :
              CreateInvestmentTransaction(q, type, m)
  BY <1>3, <1>12, WritesKeepTags
<1>13. CASE \E t \in TagId, name \in Name : CreateTag(t, name) \/ UpdateTag(t, name)
  <2>1. PICK t \in TagId, name \in Name : CreateTag(t, name) \/ UpdateTag(t, name)  BY <1>13
  <2>2. position' = position  BY <2>1 DEF CreateTag, UpdateTag
  <2>3. LiveTags(tag) \subseteq LiveTags(tag')  BY <2>1, CreateTagInv, UpdateTagInv
  <2> QED  BY <1>4, <2>2, <2>3
<1>14. CASE \E t \in TagId : DeleteTag(t)
  <2>1. PICK t \in TagId : DeleteTag(t)  BY <1>14
  <2>2. /\ LiveTags(tag') = LiveTags(tag) \ {t}
        /\ position'[p] = IF position[p] # Nil /\ position[p].tag = t
                          THEN [position[p] EXCEPT !.tag = Nil] ELSE position[p]
    BY <2>1, DeleteTagInv
  <2>3. CASE position[p] # Nil /\ position[p].tag = t
    <3>1. IsPosition(position[p])  BY <2>3 DEF Inv, PositionsOK, PositionOK
    <3>2. [position[p] EXCEPT !.tag = Nil].tag = Nil  BY <3>1, TagStays
    <3> QED  BY <1>1, <2>2, <2>3, <3>2
  <2>4. CASE ~(position[p] # Nil /\ position[p].tag = t)
    <3>1. position'[p] = position[p]  BY <2>2, <2>4
    <3> QED  BY <1>1, <1>2, <2>2, <2>4, <3>1
  <2> QED  BY <2>3, <2>4
<1>15. CASE \E q \in PosId, t \in TagId : BeginAssign(q, t)  BY <1>4, <1>15 DEF BeginAssign
<1>16. CASE AssignTag
  <2>1. /\ job.do = "assign" /\ job' = Idle /\ tag' = tag /\ job.tag \in LiveTags(job.tags)
        /\ \/ position'[p] = position[p]
           \/ p \in Live /\ position'[p] = [position[p] EXCEPT !.tag = job.tag]
    BY <1>16, AssignTagInv
  <2>2. p \in Live => IsPosition(position[p])  BY KeptAreOK DEF PositionOK
  <2>3. p \in Live => [position[p] EXCEPT !.tag = job.tag].tag = job.tag  BY <2>2, TagStays
  <2> QED  BY <1>1, <1>2, <2>1, <2>3
<1>17. CASE Upload  BY <1>4, <1>17 DEF Upload
<1>18. CASE Import
  <2>1. /\ job.do = "import" /\ job' = Idle /\ tag' = tag
        /\ job.tag \in LiveTags(job.tags) \cup {Nil}
        /\ position'[p] = position[p] \/ position'[p].tag = job.tag
    BY <1>18, ImportInv
  <2> QED  BY <1>1, <1>2, <2>1
<1> QED
  BY <1>5, <1>6, <1>7, <1>8, <1>9, <1>10, <1>11, <1>12, <1>13, <1>14, <1>15, <1>16, <1>17, <1>18
     DEF Next

----------------------------------------------------------------------------
(* The specification *)

LEMMA InitInv ==
  ASSUME Init
  PROVE  Inv
<1>1. /\ position = [p \in PosId |-> Nil] /\ tag = [t \in TagId |-> Nil]
      /\ file = Nil /\ job = Idle
  BY DEF Init
<1>2. position = [p \in PosId |-> position[p]] /\ PositionsOK  BY <1>1 DEF PositionsOK
<1>3. TagsOK(tag)  BY <1>1 DEF TagsOK, LiveTags
<1>4. JobOK  BY <1>1 DEF JobOK
<1> QED  BY <1>1, <1>2, <1>3, <1>4 DEF Inv

LEMMA NextInv ==
  ASSUME Inv, [Next]_vars
  PROVE  Inv'
<1>1. CASE UNCHANGED vars
  <2>1. /\ position' = position /\ tag' = tag /\ file' = file /\ origin' = origin /\ job' = job
    BY <1>1 DEF vars
  <2>2. PositionsOK' /\ position' = [x \in PosId |-> position'[x]]  BY <2>1 DEF Inv, PositionsOK
  <2>3. JobOK'  BY <2>1 DEF Inv, JobOK
  <2> QED  BY <2>1, <2>2, <2>3 DEF Inv
<1>2. CASE \E p \in PosId, request \in Request : CreatePosition(p, request)
  BY <1>2, CreatePositionInv
<1>3. CASE \E p \in PosId, request \in Revision : UpdatePosition(p, request)
  BY <1>3, UpdatePositionInv
<1>4. CASE \E p \in PosId : DeletePosition(p) \/ Reactivate(p) \/ ClearTag(p) \/ Export(p)
  BY <1>4, DeletePositionInv, EndInv, ClearTagInv, ExportInv
<1>5. CASE \E p \in PosId, m \in Month : DeleteSnapshot(p, m) \/ Terminate(p, m)
  BY <1>5, SnapshotInv, EndInv
<1>6. CASE \E p \in PosId, m \in Month, r \in UNION {Readings(k) : k \in Busy} :
             CreateSnapshot(p, m, r) \/ UpsertSnapshot(p, m, r)
  BY <1>6, SnapshotInv
<1>7. CASE \E p \in PosId, m \in Month, type \in UNION {allowedTransactions(k) : k \in Busy} :
             CreateInvestmentTransaction(p, type, m)
  BY <1>7, TransactionInv
<1>8. CASE \E t \in TagId, name \in Name : CreateTag(t, name) \/ UpdateTag(t, name)
  BY <1>8, CreateTagInv, UpdateTagInv
<1>9. CASE \E t \in TagId : DeleteTag(t)  BY <1>9, DeleteTagInv
<1>10. CASE \E p \in PosId, t \in TagId : BeginAssign(p, t)  BY <1>10, BeginAssignInv
<1>11. CASE AssignTag \/ Upload \/ Import  BY <1>11, AssignTagInv, UploadInv, ImportInv
<1> QED  BY <1>1, <1>2, <1>3, <1>4, <1>5, <1>6, <1>7, <1>8, <1>9, <1>10, <1>11 DEF Next

\* Every position has what its kind's create form asks for, a ledger of its kind's
\* transactions and, if it matured, the maturity that ended it; live tags have
\* names of their own; the file is the workbook of a position that could be
\* exported; and what a request is about to write was read from such.
THEOREM Invariance == Spec => []Inv
<1>1. Init => Inv  BY InitInv
<1>2. Inv /\ [Next]_vars => Inv'  BY NextInv
<1> QED  BY <1>1, <1>2, PTL DEF Spec

\* A workbook nobody edited is accepted and creates the position it was exported
\* from, whatever its kind, columns, readings and ledger, and whichever order the
\* database gave the ledger's rows in, up to the exceptions RoundTrips names.
THEOREM WorkbooksRoundTrip == Spec => []RoundTrips
<1>1. Inv => RoundTrips
  <2>1. CASE file = Nil  BY <2>1 DEF RoundTrips
  <2>2. CASE file # Nil
    <3>1. ASSUME Inv PROVE RoundTrips  BY <2>2, <3>1, RoundTrip DEF Inv
    <3> QED  BY <3>1
  <2> QED  BY <2>1, <2>2
<1> QED  BY <1>1, Invariance, PTL

\* Saving an edit form as it was opened changes no column of any kind.
THEOREM ResavingChangesNothing == Spec => []ResavingKeeps
<1>1. ASSUME Inv PROVE ResavingKeeps
  <2>1. SUFFICES ASSUME NEW p \in Live
        PROVE  LET now == position[p]
                   revision == Layers(now.kind).revision
                   opened == [c \in revision.must \cup revision.may |-> now.col[c]]
               IN  Updated(now.kind, now.col, opened) = now.col
    BY DEF ResavingKeeps
  <2>2. PositionOK(position[p])  BY <1>1, KeptAreOK
  <2>3. position[p].kind \in Kind /\ ColumnsOK(position[p].kind, position[p].col)
    BY <2>2 DEF PositionOK
  <2> QED  BY <2>3, Resaved
<1>2. Inv => ResavingKeeps  BY <1>1
<1> QED  BY <1>2, Invariance, PTL

\* A position comes to wear a deleted tag only by the second statement of a request
\* whose first one found that tag alive.
THEOREM DeadTagsComeOfRaces == Spec => OnlyRacesWearDeadTags
<1>1. ASSUME Inv, [Next]_vars
      PROVE  \A p \in PosId : WearsDeadTag(p)' /\ ~WearsDeadTag(p) =>
               /\ job.do \in {"assign", "import"}
               /\ job' = Idle
               /\ position'[p].tag = job.tag
               /\ job.tag \in LiveTags(job.tags)
  BY <1>1, RacesOnly
<1>2. Inv /\ [Next]_vars =>
        [\A p \in PosId : WearsDeadTag(p)' /\ ~WearsDeadTag(p) =>
               /\ job.do \in {"assign", "import"}
               /\ job' = Idle
               /\ position'[p].tag = job.tag
               /\ job.tag \in LiveTags(job.tags)]_vars
  BY <1>1
<1> QED  BY <1>2, Invariance, PTL DEF Spec, OnlyRacesWearDeadTags
=============================================================================
