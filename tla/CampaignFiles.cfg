SPECIFICATION FilesSpec
CONSTANTS
  Writers <- TwoSavers
  Value <- TwoRecords
  Exporters = {"exporter"}
  Others = {"other"}
  OtherRecord <- OneOther
  MaxFailures = 2
INVARIANT ExportedIsTheRecord
PROPERTIES RecordIsWriteOnce BundleIsWriteOnce EveryExportSettles
